---- MODULE Spec2Model ----
(***************************************************************************)
(* A model of mininet/node.py: the per-node topology registry (intfs,      *)
(* ports, connection), the command channel layered on the node's shell     *)
(* (sendCmd / monitor / waitOutput / cmd) and the start/stop methods of    *)
(* the switch and controller classes.                                      *)
(*                                                                         *)
(* Python values are modelled as follows.  A string is a sequence of       *)
(* tokens (one-character strings, or whole words where the code never      *)
(* looks inside them).  A dict is a function whose DOMAIN is the key set.  *)
(* An exception is the field exc of the record that the handlers thread    *)
(* through their statements: once it is set, the remaining statements of   *)
(* the handler are skipped, as in Python.                                  *)
(***************************************************************************)
EXTENDS Integers, Sequences, FiniteSets, TLC

VARIABLES cls, intfs, ports, connection, ips, macs,
          waiting, serial, lastCmd, lastPid, readbuf, execed,
          out, pending, echo,
          shell, lifecycle, last, prev, nops, limit, pc

regVars  == <<intfs, ports, connection>>
chanVars == <<waiting, serial, lastCmd, lastPid, readbuf>>
shellVars == <<out, pending, echo, shell>>
addrVars == <<ips, macs>>
vars == <<cls, intfs, ports, connection, ips, macs,
          waiting, serial, lastCmd, lastPid, readbuf, execed,
          out, pending, echo, shell, lifecycle, last, prev, nops, limit, pc>>

(***************************************************************************)
(* Bounds of the model: MaxOps calls in a behaviour of the registry and of *)
(* the start/stop methods, MaxCalls calls in a behaviour of the command    *)
(* channel, ports up to MaxPort, and the output of a command arriving in   *)
(* at most MaxChunks pieces while cmd waits for it, and MaxReads calls in   *)
(* a behaviour of a caller that reads the output of the shell itself.      *)
(***************************************************************************)
MaxOps == 3
MaxPort == 2
MaxCalls == 2
MaxChunks == 2
MaxReads == 4

(***************************************************************************)
(* Python constants.                                                       *)
(***************************************************************************)
None == -1
NoExc == "ok"
NoNode == "None"
SWITCH_PORT_BASE == 1
ReadSize == 1024

(* dict operations *)
Put(d, k, v) == (k :> v) @@ d
Del(d, k) == [x \in (DOMAIN d) \ {k} |-> d[x]]
Values(d) == {d[k] : k \in DOMAIN d}
EmptyDict == [x \in {} |-> x]

Max(S) == CHOOSE x \in S : \A y \in S : y <= x

(* The keys of a dict in the order a loop over them visits them.  Python   *)
(* leaves the order of a dict unspecified; the model fixes one.            *)
RECURSIVE KeyList(_)
KeyList(S) ==
    IF S = {} THEN <<>>
    ELSE LET k == CHOOSE x \in S : TRUE IN <<k>> \o KeyList(S \ {k})

(***************************************************************************)
(* repr( n ) and int( s ) on decimal digits.                               *)
(***************************************************************************)
DigitChars == <<"0", "1", "2", "3", "4", "5", "6", "7", "8", "9">>

DigitVal(c) == (CHOOSE i \in 1..10 : DigitChars[i] = c) - 1

IsDigit(c) == \E i \in 1..10 : DigitChars[i] = c

RECURSIVE repr(_)
repr(n) ==
    IF n < 10 THEN <<DigitChars[n + 1]>>
    ELSE repr(n \div 10) \o <<DigitChars[(n % 10) + 1]>>

RECURSIVE int(_)
int(s) ==
    IF Len(s) = 1 THEN DigitVal(s[1])
    ELSE 10 * int(SubSeq(s, 1, Len(s) - 1)) + DigitVal(s[Len(s)])

(***************************************************************************)
(* Classes.                                                                *)
(***************************************************************************)
SwitchClasses == {"UserSwitch", "KernelSwitch", "OVSKernelSwitchNew"}

IsSwitch(n) == cls[n] \in SwitchClasses

Nodes == DOMAIN cls

portBase(n) == IF IsSwitch(n) THEN SWITCH_PORT_BASE ELSE 0

(* Node.__init__ default inNamespace=True; Controller defaults to False;   *)
(* OVSKernelSwitchNew exits unless it is in the root namespace.            *)
inNamespace(n) == cls[n] \in {"Host", "UserSwitch"}

(***************************************************************************)
(* The state a handler works on, and what it reports: exc is the exception *)
(* that left the handler (NoExc if it returned), ret its return value and  *)
(* calls the external primitives and shell writes it made, in order.       *)
(***************************************************************************)
Cur ==
    [intfs |-> intfs, ports |-> ports, connection |-> connection,
     ips |-> ips, macs |-> macs,
     waiting |-> waiting, serial |-> serial, lastCmd |-> lastCmd,
     lastPid |-> lastPid, readbuf |-> readbuf, out |-> out,
     pending |-> pending, exc |-> NoExc, ret |-> <<>>, calls |-> <<>>,
     reads |-> <<>>, idle |-> <<>>]

Raise(R, e) == [R EXCEPT !.exc = e]

Call(R, c) == [R EXCEPT !.calls = Append(@, c)]

Failed(R) == R.exc # NoExc

(* Sequencing: the value v of one statement is computed once and handed   *)
(* to the statements F that follow it.                                     *)
Then(v, F(_)) == CHOOSE x \in {F(y) : y \in {v}} : TRUE

(***************************************************************************)
(* The byte stream of the shell.  SOH is chr( 1 ), the byte `mnexec -p`    *)
(* prints before the pid; DEL is chr( 127 ), the prompt PS1 of the shell;  *)
(* ETX is chr( 3 ).  The pty turns the newline of a line into CR LF.       *)
(***************************************************************************)
SOH == "SOH"
DEL == "DEL"
ETX == "ETX"
CR == "\r"
LF == "\n"

Min(a, b) == IF a < b THEN a ELSE b

Drop(s, k) == SubSeq(s, k + 1, Len(s))

Contains(s, c) == \E i \in 1..Len(s) : s[i] = c

(* s.replace( c, '' ) *)
RECURSIVE Remove(_, _)
Remove(s, c) ==
    IF s = <<>> THEN <<>>
    ELSE (IF s[1] = c THEN <<>> ELSE <<s[1]>>) \o Remove(Tail(s), c)

(* ' '.join( args ) *)
RECURSIVE Join(_)
Join(args) ==
    IF Len(args) = 0 THEN <<>>
    ELSE IF Len(args) = 1 THEN args[1]
    ELSE args[1] \o <<" ">> \o Join(Tail(args))

(***************************************************************************)
(* Node.read: the carry-over buffer first, then os.read on the pty.        *)
(* os.read returns what the pty holds, up to the count asked for.  The     *)
(* descriptor is the master of the pty as pty.openpty() gives it, without  *)
(* O_NONBLOCK: a read of an empty pty does not return (WouldBlock), which  *)
(* is reported as "Hang".                                                  *)
(***************************************************************************)
WouldBlock(R, n, bytes) == Len(R.readbuf[n]) < bytes /\ R.out[n] = <<>>

(* read that forgets what it does not return *)
read_DropRest(R, n, bytes) ==
    LET count == Len(R.readbuf[n])
        k == IF count < bytes THEN Min(bytes - count, Len(R.out[n])) ELSE 0
        buf == R.readbuf[n] \o SubSeq(R.out[n], 1, k)
    IN  IF WouldBlock(R, n, bytes) THEN Raise(R, "Hang")
        ELSE IF bytes >= Len(buf)
        THEN [R EXCEPT !.out[n] = Drop(@, k), !.readbuf[n] = <<>>,
                       !.ret = buf]
        ELSE [R EXCEPT !.out[n] = Drop(@, k),
                       !.readbuf[n] = <<>>,
                       !.ret = SubSeq(buf, 1, bytes)]

read(R, n, bytes) ==
    LET count == Len(R.readbuf[n])
        k == IF count < bytes THEN Min(bytes - count, Len(R.out[n])) ELSE 0
        buf == R.readbuf[n] \o SubSeq(R.out[n], 1, k)
    IN  IF WouldBlock(R, n, bytes) THEN Raise(R, "Hang")
        ELSE IF bytes >= Len(buf)
        THEN [R EXCEPT !.out[n] = Drop(@, k), !.readbuf[n] = <<>>,
                       !.ret = buf]
        ELSE [R EXCEPT !.out[n] = Drop(@, k),
                       !.readbuf[n] = Drop(buf, bytes),
                       !.ret = SubSeq(buf, 1, bytes)]

(* Node.write: the bytes go to the shell's input. *)
write(R, n, data) == Call(R, <<"write", n, data>>)

(***************************************************************************)
(* The shell, as the code expects it to answer.  The pty echoes a line     *)
(* written to it when echo is set (the marker line is written with three   *)
(* blanks so that its echo does not match the marker the code waits for);  *)
(* the shell then prints the output of the command and its prompt DEL.     *)
(***************************************************************************)
EchoOf(line) == IF echo THEN SubSeq(line, 1, Len(line) - 1) \o <<CR, LF>>
                ELSE <<>>

MarkerLine(k) == <<"echo __   ">> \o repr(k) \o <<"   __", LF>>

MarkerMatch(k) == <<"__ ">> \o repr(k) \o <<" __">>

(* buf.find( match ): the first index at which match starts, 0 if none *)
Find(buf, match) ==
    LET I == {i \in 1..(Len(buf) - Len(match) + 1) :
                 SubSeq(buf, i, i + Len(match) - 1) = match}
    IN  IF I = {} THEN 0 ELSE CHOOSE i \in I : \A j \in I : i <= j

(* What the two loops of sendCmd leave unread of the stream `s`: they read *)
(* on until the marker and then a prompt have been seen.                   *)
SyncDone(s, match) ==
    LET i == Find(s, match)
    IN  i > 0 /\ Contains(Drop(s, i + Len(match) - 1), DEL)

(* re.search( r'\w', cmd ) *)
NonWordTokens == {" ", "-", "\t"}

HasWord(cmd) == \E i \in 1..Len(cmd) : cmd[i] \notin NonWordTokens

(* mininet.util.isShellBuiltin: the first word is a builtin of bash *)
ShellBuiltins == {"echo", "cd", "kill"}

FirstWord(cmd) ==
    LET I == {i \in 1..Len(cmd) : cmd[i] = " "}
    IN  IF I = {} \/ cmd[1] = " " THEN cmd
        ELSE SubSeq(cmd, 1, (CHOOSE i \in I : \A j \in I : i <= j) - 1)

isShellBuiltin(cmd) == Len(FirstWord(cmd)) = 1 /\ FirstWord(cmd)[1] \in ShellBuiltins

(* kwargs.get( key, default ) *)
Get(kw, key, default) == IF key \in DOMAIN kw THEN kw[key] ELSE default

(* kwargs.setdefault( key, value ) *)
SetDefault(kw, key, value) == IF key \in DOMAIN kw THEN kw ELSE Put(kw, key, value)

(* The command line sendCmd writes for args and kwargs (lines 209-223). *)
CmdLine(args, kw) ==
    LET cmd0 == Join(args)
        cmd1 == IF ~HasWord(cmd0) THEN <<"echo", " ", "-n">> ELSE cmd0
        wrap == Get(kw, "printPid", TRUE) /\ ~isShellBuiltin(cmd1)
        cmd2 == IF wrap /\ Get(kw, "mn_use_mnexec", TRUE)
                THEN <<"mnexec -p ">> \o cmd1 ELSE cmd1
    IN  IF wrap /\ Get(kw, "mn_disable_io_buf", FALSE)
        THEN <<"stdbuf -i0 -o0 -e0 ">> \o cmd2
        ELSE cmd2

(***************************************************************************)
(* What the shell prints for a command line before its next prompt:        *)
(* `echo -n` prints nothing; `mnexec -p` prints SOH, its pid and a newline *)
(* before the command runs; env.body is what the command itself prints.    *)
(***************************************************************************)
ShellOutput(line, env) ==
    IF line = <<"echo", " ", "-n">> THEN <<>>
    ELSE IF Contains(line, "mnexec -p ")
    THEN <<SOH>> \o repr(env.pid) \o <<CR, LF>> \o env.body
    ELSE env.body

(***************************************************************************)
(* Node.sendCmd.  env is what the command will do once the shell runs it.  *)
(* The marker line is answered once the shell has printed what was still   *)
(* pending; the two loops then read up to the prompt after the marker.     *)
(* A call that never returns is reported as "Hang".                        *)
(***************************************************************************)
SyncStream(R, n, k) ==
    R.readbuf[n] \o R.out[n] \o R.pending[n]
    \o (IF shell[n] = "dead" THEN <<>>
        ELSE EchoOf(MarkerLine(k)) \o MarkerMatch(k) \o <<CR, LF, DEL>>)

(* sendCmd whose loops consume nothing of what was unread *)
NodeSendCmdBody_NoResync(R, n, args, kw, env) ==
    Then(R.serial[n] + 1, LAMBDA k :
    Then(write([R EXCEPT !.serial[n] = k], n, MarkerLine(k)), LAMBDA R1 :
    IF ~SyncDone(SyncStream(R, n, k), MarkerMatch(k)) THEN Raise(R1, "Hang")
    ELSE
    Then([R1 EXCEPT !.pending[n] = R.out[n] \o R.pending[n],
                    !.out[n] = <<>>], LAMBDA R2 :
    IF Len(args) = 0 THEN Raise(R2, "UnboundLocalError")
    ELSE
    Then(CmdLine(args, kw), LAMBDA cmd :
    Then(write([R2 EXCEPT !.pending[n] = @ \o EchoOf(cmd \o <<LF>>)
                                          \o ShellOutput(cmd, env)
                                          \o <<DEL>>],
               n, cmd \o <<LF>>), LAMBDA R3 :
    IF Get(kw, "mn_wait", TRUE)
    THEN [R3 EXCEPT !.lastCmd[n] = cmd, !.lastPid[n] = None,
                    !.waiting[n] = TRUE]
    ELSE R3)))))

NodeSendCmdBody(R, n, args, kw, env) ==
    Then(R.serial[n] + 1, LAMBDA k :
    Then(write([R EXCEPT !.serial[n] = k], n, MarkerLine(k)), LAMBDA R1 :
    IF ~SyncDone(SyncStream(R, n, k), MarkerMatch(k)) THEN Raise(R1, "Hang")
    ELSE
    Then([R1 EXCEPT !.readbuf[n] = <<>>, !.out[n] = <<>>,
                    !.pending[n] = <<>>], LAMBDA R2 :
    IF Len(args) = 0 THEN Raise(R2, "UnboundLocalError")
    ELSE
    Then(CmdLine(args, kw), LAMBDA cmd :
    Then(write([R2 EXCEPT !.pending[n] = EchoOf(cmd \o <<LF>>)
                                          \o ShellOutput(cmd, env)
                                          \o <<DEL>>],
               n, cmd \o <<LF>>), LAMBDA R3 :
    IF Get(kw, "mn_wait", TRUE)
    THEN [R3 EXCEPT !.lastCmd[n] = cmd, !.lastPid[n] = None,
                    !.waiting[n] = TRUE]
    ELSE R3)))))

(* sendCmd without its assertion *)
NodeSendCmd_NoAssert(R, n, args, kw, env) ==
    IF Failed(R) THEN R ELSE NodeSendCmdBody(R, n, args, kw, env)

NodeSendCmd(R, n, args, kw, env) ==
    IF Failed(R) THEN R
    ELSE IF R.waiting[n] THEN Raise(R, "AssertionError")
    ELSE NodeSendCmdBody(R, n, args, kw, env)

(* Switch.sendCmd: printPid defaults to False; nothing is sent once the   *)
(* switch has execed.                                                      *)
sendCmd(R, n, args, kw, env) ==
    IF Failed(R) THEN R
    ELSE IF IsSwitch(n) /\ execed[n]
    THEN Call(R, <<"error", n, <<"has execed">>>>)
    ELSE NodeSendCmd(R, n, args,
                     IF IsSwitch(n) THEN SetDefault(kw, "printPid", FALSE)
                     ELSE kw, env)

(***************************************************************************)
(* Node.sendInt.  The terminal answers the interrupt character by ending   *)
(* the command that runs, whose remaining output is not printed, and the   *)
(* shell prints a new prompt.                                              *)
(***************************************************************************)
IntOutput == (IF echo THEN <<"^C", CR, LF>> ELSE <<>>) \o <<DEL>>

(* sendInt that gives the command up *)
sendInt_GiveUp(R, n) ==
    write([R EXCEPT !.pending[n] = IntOutput, !.waiting[n] = FALSE], n, <<ETX>>)

sendInt(R, n) ==
    IF Failed(R) THEN R
    ELSE write([R EXCEPT !.pending[n] = IntOutput], n, <<ETX>>)

(***************************************************************************)
(* Node.monitor.  marker is chr( 1 ) + r'\d+\r\n'.                         *)
(***************************************************************************)
(* the number of digits that follow position i *)
RECURSIVE DigitRun(_, _)
DigitRun(data, i) ==
    IF i + 1 <= Len(data) /\ IsDigit(data[i + 1]) THEN 1 + DigitRun(data, i + 1)
    ELSE 0

(* the length of the match of marker that starts at i, 0 if none does *)
MarkerAt(data, i) ==
    LET d == DigitRun(data, i)
    IN  IF data[i] = SOH /\ d >= 1 /\ i + d + 2 <= Len(data)
           /\ data[i + d + 1] = CR /\ data[i + d + 2] = LF
        THEN d + 3 ELSE 0

(* re.findall( marker, data ) *)
RECURSIVE FindAll(_, _)
FindAll(data, i) ==
    IF i > Len(data) THEN <<>>
    ELSE LET m == MarkerAt(data, i)
         IN  IF m > 0 THEN <<SubSeq(data, i, i + m - 1)>> \o FindAll(data, i + m)
             ELSE FindAll(data, i + 1)

(* re.sub( marker, '', data ) *)
RECURSIVE Sub(_, _)
Sub(data, i) ==
    IF i > Len(data) THEN <<>>
    ELSE LET m == MarkerAt(data, i)
         IN  IF m > 0 THEN Sub(data, i + m)
             ELSE <<data[i]>> \o Sub(data, i + 1)

(* int( markers[ 0 ][ 1: ] ): int ignores the trailing CR LF *)
MarkerPid(m) == int(SubSeq(m, 2, Len(m) - 2))

(* monitor that keeps one waiting flag for all nodes *)
monitor_AllIdle(R, n) ==
    IF Failed(R) THEN R
    ELSE
    Then(read(R, n, ReadSize), LAMBDA R1 :
    Then(IF Contains(R1.ret, SOH) THEN FindAll(R1.ret, 1) ELSE <<>>,
         LAMBDA markers :
    Then(IF Len(markers) > 0
         THEN [R1 EXCEPT !.lastPid[n] = MarkerPid(markers[1])]
         ELSE R1, LAMBDA R2 :
    Then(IF Len(markers) > 0 THEN Sub(R1.ret, 1) ELSE R1.ret, LAMBDA data :
    IF Len(data) > 0 /\ data[Len(data)] = DEL
    THEN [R2 EXCEPT !.waiting = [m \in DOMAIN @ |-> FALSE],
                    !.idle = Append(@, Len(R2.calls)),
                    !.ret = SubSeq(data, 1, Len(data) - 1)]
    ELSE IF Contains(data, DEL)
    THEN [R2 EXCEPT !.waiting = [m \in DOMAIN @ |-> FALSE],
                    !.idle = Append(@, Len(R2.calls)),
                    !.ret = Remove(data, DEL)]
    ELSE [R2 EXCEPT !.ret = data]))))

(* Node.monitor.  idle notes, for each prompt seen, how many calls the     *)
(* handler had made by then.                                              *)
monitor(R, n) ==
    IF Failed(R) THEN R
    ELSE
    Then(read(R, n, ReadSize), LAMBDA R1 :
    Then(IF Contains(R1.ret, SOH) THEN FindAll(R1.ret, 1) ELSE <<>>,
         LAMBDA markers :
    Then(IF Len(markers) > 0
         THEN [R1 EXCEPT !.lastPid[n] = MarkerPid(markers[1])]
         ELSE R1, LAMBDA R2 :
    Then(IF Len(markers) > 0 THEN Sub(R1.ret, 1) ELSE R1.ret, LAMBDA data :
    IF Len(data) > 0 /\ data[Len(data)] = DEL
    THEN [R2 EXCEPT !.waiting[n] = FALSE,
                    !.idle = Append(@, Len(R2.calls)),
                    !.ret = SubSeq(data, 1, Len(data) - 1)]
    ELSE IF Contains(data, DEL)
    THEN [R2 EXCEPT !.waiting[n] = FALSE,
                    !.idle = Append(@, Len(R2.calls)),
                    !.ret = Remove(data, DEL)]
    ELSE [R2 EXCEPT !.ret = data]))))

(***************************************************************************)
(* Node.waitOutput.  chunks are the sizes of the pieces in which the       *)
(* shell's output reaches the pty between the calls of monitor; acc is the *)
(* local variable output; pattern is a compiled regexp that matches one    *)
(* character, or NoPattern for None.  reads keeps what each call of        *)
(* monitor returned.                                                       *)
(***************************************************************************)
Emit(R, n, k) ==
    [R EXCEPT !.out[n] = @ \o SubSeq(R.pending[n], 1, k),
              !.pending[n] = Drop(@, k)]

NoPattern == ""

(* pattern.search( output ) *)
search(pattern, output) == Contains(output, pattern)

RECURSIVE waitOutputLoop(_, _, _, _, _)
waitOutputLoop(R, n, chunks, acc, pattern) ==
    IF Failed(R) THEN R
    ELSE IF ~(R.waiting[n] /\ (pattern = NoPattern \/ ~search(pattern, acc)))
    THEN [R EXCEPT !.ret = acc]
    ELSE
    Then(IF chunks = <<>> THEN R ELSE Emit(R, n, chunks[1]), LAMBDA R0 :
    IF WouldBlock(R0, n, ReadSize) THEN Raise(R0, "Hang")
    ELSE
    Then(monitor(R0, n), LAMBDA R1 :
    waitOutputLoop([R1 EXCEPT !.reads = Append(@, R1.ret)], n,
                   IF chunks = <<>> THEN <<>> ELSE Tail(chunks),
                   acc \o R1.ret, pattern)))

(* waitOutput that starts with a blank in its output *)
waitOutput_Blank(R, n, chunks, pattern) ==
    waitOutputLoop(R, n, chunks, <<" ">>, pattern)

waitOutput(R, n, chunks, pattern) == waitOutputLoop(R, n, chunks, <<>>, pattern)

(* The ways a stream of length len can arrive in at most m pieces. *)
RECURSIVE Chunkings(_, _)
Chunkings(len, m) ==
    IF len = 0 THEN {<<>>}
    ELSE IF m = 1 THEN {<<len>>}
    ELSE {<<len>>} \cup
         UNION {{<<k>> \o c : c \in Chunkings(len - k, m - 1)} : k \in 1..(len - 1)}

(* Node.cmd for a command whose output the caller does not look at: the    *)
(* command prints nothing and its echo and prompt arrive in one piece.     *)
QuietEnv == [pid |-> 7, body |-> <<>>]

quietCmd(R, n, args) ==
    Then(sendCmd(R, n, args, EmptyDict, QuietEnv), LAMBDA R1 :
    waitOutput(R1, n, IF Failed(R1) THEN <<>> ELSE <<Len(R1.pending[n])>>,
               NoPattern))

(* Node.cmd for a command that does env; its output arrives in one piece *)
cmd(R, n, args, env) ==
    Then(sendCmd(R, n, args, EmptyDict, env), LAMBDA R1 :
    waitOutput(R1, n, IF Failed(R1) THEN <<>> ELSE <<Len(R1.pending[n])>>,
               NoPattern))

(***************************************************************************)
(* Node.IP and Node.MAC.  An address is one character of the output of     *)
(* ifconfig; NoAddr is None.                                               *)
(***************************************************************************)
NoAddr == "None"

IPAddrs == {"10.0.0.1"}

MACAddrs == {"00:00:00:00:00:01"}

(* regex.findall( ifconfig ): the first match if any, else None *)
FirstMatch(ifconfig, addrs) ==
    LET I == {i \in 1..Len(ifconfig) : ifconfig[i] \in addrs}
    IN  IF I = {} THEN NoAddr ELSE ifconfig[CHOOSE i \in I : \A j \in I : i <= j]

(* Node.updateIP *)
updateIP(R, n, intf, env) ==
    IF Failed(R) THEN R
    ELSE IF R.waiting[n] THEN Raise(R, "AssertionError")
    ELSE
    Then(cmd(R, n, <<<<"ifconfig ">> \o intf>>, env), LAMBDA R1 :
    IF Failed(R1) THEN R1
    ELSE [R1 EXCEPT !.ips[n] = Put(@, intf, FirstMatch(R1.ret, IPAddrs))])

(* Node.updateMAC *)
updateMAC(R, n, intf, env) ==
    IF Failed(R) THEN R
    ELSE IF R.waiting[n] THEN Raise(R, "AssertionError")
    ELSE
    Then(cmd(R, n, <<<<"ifconfig ">> \o intf>>, env), LAMBDA R1 :
    IF Failed(R1) THEN R1
    ELSE [R1 EXCEPT !.macs[n] = Put(@, intf, FirstMatch(R1.ret, MACAddrs))])

(* Node.IP for an interface name; <<>> is the None of defaultIntf *)
NodeIP(R, n, intf, env) ==
    IF Failed(R) THEN R
    ELSE
    Then(IF intf # <<>> /\ ~R.waiting[n] THEN updateIP(R, n, intf, env) ELSE R,
         LAMBDA R1 :
    IF Failed(R1) THEN R1 ELSE [R1 EXCEPT !.ret = Get(R1.ips[n], intf, NoAddr)])

(* Node.MAC for an interface name *)
MAC(R, n, intf, env) ==
    IF Failed(R) THEN R
    ELSE
    Then(IF intf # <<>> /\ ~R.waiting[n] THEN updateMAC(R, n, intf, env) ELSE R,
         LAMBDA R1 :
    IF Failed(R1) THEN R1 ELSE [R1 EXCEPT !.ret = Get(R1.macs[n], intf, NoAddr)])

(***************************************************************************)
(* Interface names and ports.                                              *)
(***************************************************************************)
(* Node.intfName: self.name + '-eth' + repr( n ) *)
intfName(n, port) == <<n, "-eth">> \o repr(port)

(* intf.rfind( '-eth' ): the last index of the token, 0 if there is none *)
RFind(intf, tok) ==
    LET I == {i \in 1..Len(intf) : intf[i] = tok}
    IN  IF I = {} THEN 0 ELSE Max(I)

(* Node.intfToPort; int raises ValueError unless digits follow '-eth' *)
ValueError == -2

intfToPort(intf) ==
    LET index == RFind(intf, "-eth")
        rest == Drop(intf, index)
    IN  IF index = 0 THEN None
        ELSE IF rest = <<>> \/ \E i \in 1..Len(rest) : ~IsDigit(rest[i])
        THEN ValueError
        ELSE int(rest)

(* Node.newPort *)
newPort(R, n) ==
    IF Cardinality(DOMAIN R.ports[n]) > 0 THEN Max(Values(R.ports[n])) + 1
    ELSE portBase(n)

(* mininet.util.moveIntf and quietRun: external commands *)
moveIntf(R, n, intf) == Call(R, <<"moveIntf", n, intf>>)

quietRun(R, n, what, intf) == Call(R, <<what, n, intf>>)

(* Node.addIntf *)
NodeAddIntf(R, n, intf, port) ==
    IF Failed(R) THEN R
    ELSE
    Then(IF port = None THEN newPort(R, n) ELSE port, LAMBDA p :
    Then([R EXCEPT !.intfs[n] = Put(@, p, intf),
                   !.ports[n] = Put(@, intf, p)], LAMBDA R1 :
    IF inNamespace(n) THEN moveIntf(R1, n, intf) ELSE R1))

(* OVSKernelSwitchNew.addIntf: the interface is then added to the datapath *)
addIntf(R, n, intf, port) ==
    Then(NodeAddIntf(R, n, intf, port), LAMBDA R1 :
    IF cls[n] = "OVSKernelSwitchNew"
    THEN quietCmd(R1, n, <<<<"ovs-vsctl -- --may-exist">>, <<"add-port">>,
                          <<"mn-dp">>, intf>>)
    ELSE R1)

(* registerIntf that records the node's own interface as the peer *)
registerIntf_Self(R, n, intf, dstNode, dstIntf) ==
    IF Failed(R) THEN R
    ELSE [R EXCEPT !.connection[n] = Put(@, intf, <<n, intf>>)]

(* Node.registerIntf *)
registerIntf(R, n, intf, dstNode, dstIntf) ==
    IF Failed(R) THEN R
    ELSE [R EXCEPT !.connection[n] = Put(@, intf, <<dstNode, dstIntf>>)]

(* mininet.util.makeIntfPair: creates the veth pair; pairFails is whether  *)
(* the host refuses it.                                                    *)
makeIntfPair(R, n, intf1, intf2, pairFails) ==
    IF Failed(R) THEN R
    ELSE IF pairFails
    THEN Raise(Call(R, <<"makeIntfPair", n, intf1 \o intf2>>), "LinkCreationFailure")
    ELSE Call(R, <<"makeIntfPair", n, intf1 \o intf2>>)

(* Node.linkTo *)
linkTo(R, node1, node2, port1, port2, pairFails) ==
    Then(IF port1 = None THEN newPort(R, node1) ELSE port1, LAMBDA p1 :
    Then(IF port2 = None THEN newPort(R, node2) ELSE port2, LAMBDA p2 :
    Then(intfName(node1, p1), LAMBDA intf1 :
    Then(intfName(node2, p2), LAMBDA intf2 :
    Then(makeIntfPair(R, node1, intf1, intf2, pairFails), LAMBDA R1 :
    Then(addIntf(R1, node1, intf1, p1), LAMBDA R2 :
    Then(addIntf(R2, node2, intf2, p2), LAMBDA R3 :
    Then(registerIntf(R3, node1, intf1, node2, intf2), LAMBDA R4 :
    Then(registerIntf(R4, node2, intf2, node1, intf1), LAMBDA R5 :
    IF Failed(R5) THEN R5 ELSE [R5 EXCEPT !.ret = <<intf1, intf2>>])))))))))

(* deleteIntf that forgets the entry of the ports map *)
NodeDeleteIntf_KeepPort(R, n, intf) ==
    LET port == intfToPort(intf)
    IN  IF Failed(R) THEN R
        ELSE IF intf \notin DOMAIN R.connection[n] THEN Raise(R, "KeyError")
        ELSE quietRun([R EXCEPT !.connection[n] = Del(@, intf),
                                !.intfs[n] = IF port \in DOMAIN @ THEN Del(@, port)
                                             ELSE @],
                      n, "ip link del", intf)

(* deleteIntf that deletes from the ports map first *)
NodeDeleteIntf_PortsFirst(R, n, intf) ==
    LET port == intfToPort(intf)
        R0 == [R EXCEPT !.ports[n] = Del(@, intf)]
        R1 == [R0 EXCEPT !.connection[n] = Del(@, intf)]
        R2 == IF port = None THEN R1 ELSE [R1 EXCEPT !.intfs[n] = Del(@, port)]
    IN  IF Failed(R) THEN R
        ELSE IF intf \notin DOMAIN R.ports[n] THEN Raise(R, "KeyError")
        ELSE IF intf \notin DOMAIN R.connection[n] THEN Raise(R0, "KeyError")
        ELSE IF port # None /\ port \notin DOMAIN R1.intfs[n]
        THEN Raise(R1, "KeyError")
        ELSE quietRun(R2, n, "ip link del", intf)

(* Node.deleteIntf; del raises KeyError for a missing key *)
NodeDeleteIntf(R, n, intf) ==
    LET port == intfToPort(intf)
        R1 == [R EXCEPT !.connection[n] = Del(@, intf)]
        R2 == IF port = None THEN R1 ELSE [R1 EXCEPT !.intfs[n] = Del(@, port)]
        R3 == [R2 EXCEPT !.ports[n] = Del(@, intf)]
    IN  IF Failed(R) THEN R
        ELSE IF intf \notin DOMAIN R.connection[n] THEN Raise(R, "KeyError")
        ELSE IF port = ValueError THEN Raise(R1, "ValueError")
        ELSE IF port # None /\ port \notin DOMAIN R1.intfs[n]
        THEN Raise(R1, "KeyError")
        ELSE IF intf \notin DOMAIN R2.ports[n] THEN Raise(R2, "KeyError")
        ELSE quietRun(R3, n, "ip link del", intf)

(* OVSKernelSwitchNew.deleteIntf: the port is then removed from the datapath *)
deleteIntf(R, n, intf) ==
    Then(NodeDeleteIntf(R, n, intf), LAMBDA R1 :
    IF cls[n] = "OVSKernelSwitchNew"
    THEN quietCmd(R1, n, <<<<"ovs-vsctl">>, <<" -- --if-exists">>,
                           <<"del-port">>, <<"mn-dp">>, intf>>)
    ELSE R1)

(* the loop `for intf in intfs: self.deleteIntf(intf)` *)
RECURSIVE deleteEach(_, _, _)
deleteEach(R, n, list) ==
    IF list = <<>> THEN R
    ELSE deleteEach(deleteIntf(R, n, list[1]), n, Tail(list))

(* Node.deleteIntfsToNode; `if dstPort` is false for None and for 0 *)
deleteIntfsToNode(R, n, dstNode, dstPort) ==
    LET hasIntf == dstPort # None /\ dstPort # 0
        dstIntf == intfName(dstNode, dstPort)
        sel == {intf \in DOMAIN R.connection[n] :
                   IF hasIntf THEN R.connection[n][intf][2] = dstIntf
                   ELSE R.connection[n][intf][1] = dstNode}
    IN  IF Failed(R) THEN R ELSE deleteEach(R, n, KeyList(sel))

(* the loop of Node.unlinkFrom over unlinkList *)
RECURSIVE unlinkEach(_, _, _)
unlinkEach(R, n, list) ==
    IF list = <<>> THEN R
    ELSE unlinkEach(deleteIntfsToNode(deleteIntfsToNode(R, n, list[1], None),
                                      list[1], n, None),
                    n, Tail(list))

(* Node.unlinkFrom; node2 is a node or None *)
unlinkFrom(R, n, node2) ==
    LET keys == KeyList(DOMAIN R.connection[n])
        unlinkList == IF node2 # NoNode THEN <<node2>>
                      ELSE [i \in 1..Len(keys) |-> R.connection[n][keys[i]][1]]
    IN  unlinkEach(R, n, unlinkList)

(* Node.deletePort *)
deletePort(R, n, port) == deleteIntf(R, n, intfName(n, port))

(***************************************************************************)
(* The operations as steps of the controlling program.  last describes the *)
(* call that made the step, prev the call before it.                       *)
(***************************************************************************)
Op(name, a, b, intf, p1, p2) ==
    [op |-> name, a |-> a, b |-> b, intf |-> intf, p1 |-> p1, p2 |-> p2]

(* the pair of nodes last linked with unspecified ports, if the last call *)
(* was such a linkTo that returned                                         *)
LinkedPair(l) ==
    IF l.op = "linkTo" /\ l.exc = NoExc /\ l.p1 = None /\ l.p2 = None
    THEN <<l.a, l.b>> ELSE <<>>

Commit(R, o) ==
    /\ R.exc # "Hang"
    /\ intfs' = R.intfs
    /\ ports' = R.ports
    /\ connection' = R.connection
    /\ ips' = R.ips
    /\ macs' = R.macs
    /\ waiting' = R.waiting
    /\ serial' = R.serial
    /\ lastCmd' = R.lastCmd
    /\ lastPid' = R.lastPid
    /\ readbuf' = R.readbuf
    /\ out' = R.out
    /\ pending' = R.pending
    /\ last' = o @@ [exc |-> R.exc, ret |-> R.ret, calls |-> R.calls]
    /\ prev' = LinkedPair(last)
    /\ nops' = nops + 1
    /\ UNCHANGED <<cls, echo, limit, pc>>

(* the explicit port arguments the model passes *)
(* what the shell has printed or will print and the caller has not read *)
Unread(n) == readbuf[n] \o out[n] \o pending[n]

PortArgs == {None, 0, 1}

LinkPorts == {<<None, None>>, <<0, None>>, <<None, 1>>, <<1, 1>>}

AddNames(n) == {<<"x">>, intfName(n, 1)}

DelNames(n) == {<<"x">>} \cup {intfName(n, p) : p \in 0..1}

InRange(R) == \A n \in Nodes : \A p \in DOMAIN R.intfs[n] : p <= MaxPort

AddIntf(n, intf, port) ==
    /\ nops < limit
    /\ \E R \in {addIntf(Cur, n, intf, port)} :
           /\ InRange(R)
           /\ Commit(R, Op("addIntf", n, NoNode, intf, port, None))
    /\ UNCHANGED <<execed, shell, lifecycle>>

LinkTo(a, b, p1, p2, pairFails) ==
    /\ nops < limit
    /\ \E R \in {linkTo(Cur, a, b, p1, p2, pairFails)} :
           /\ InRange(R)
           /\ Commit(R, Op(IF pairFails THEN "linkToFail" ELSE "linkTo",
                           a, b, <<>>, p1, p2))
    /\ UNCHANGED <<execed, shell, lifecycle>>

UnlinkFrom(a, b) ==
    /\ nops < limit
    /\ \E R \in {unlinkFrom(Cur, a, b)} :
           Commit(R, Op("unlinkFrom", a, b, <<>>, None, None))
    /\ UNCHANGED <<execed, shell, lifecycle>>

DeleteIntfsToNode(a, b, port) ==
    /\ nops < limit
    /\ \E R \in {deleteIntfsToNode(Cur, a, b, port)} :
           Commit(R, Op("deleteIntfsToNode", a, b, <<>>, port, None))
    /\ UNCHANGED <<execed, shell, lifecycle>>

DeleteIntf(n, intf) ==
    /\ nops < limit
    /\ \E R \in {deleteIntf(Cur, n, intf)} :
           Commit(R, Op("deleteIntf", n, NoNode, intf, None, None))
    /\ UNCHANGED <<execed, shell, lifecycle>>

DeletePort(n, port) ==
    /\ nops < limit
    /\ \E R \in {deletePort(Cur, n, port)} :
           Commit(R, Op("deletePort", n, NoNode, <<>>, port, None))
    /\ UNCHANGED <<execed, shell, lifecycle>>

(* the commands the model sends: '', ' ', 'ls', 'echo hi' *)
Commands == {<<<<>>>>, <<<<" ">>>>, <<<<"ls">>>>, <<<<"echo">>, <<"hi">>>>}

SendCmd(n, args, kw, env) ==
    /\ nops < limit
    /\ \E R \in {sendCmd(Cur, n, args, kw, env)} :
           Commit(R, Op("sendCmd", n, NoNode, Join(args), None, None)
                     @@ [kw |-> kw, env |-> env, stale |-> Unread(n)])
    /\ UNCHANGED <<execed, shell, lifecycle>>

(***************************************************************************)
(* The registry: two hosts and an Open vSwitch switch.                     *)
(***************************************************************************)
Init ==
    /\ cls = [n \in {"h1", "h2", "s1"} |->
                 IF n = "s1" THEN "OVSKernelSwitchNew" ELSE "Host"]
    /\ intfs = [n \in {"h1", "h2", "s1"} |-> EmptyDict]
    /\ ports = [n \in {"h1", "h2", "s1"} |-> EmptyDict]
    /\ connection = [n \in {"h1", "h2", "s1"} |-> EmptyDict]
    /\ waiting = [n \in {"h1", "h2", "s1"} |-> FALSE]
    /\ serial = [n \in {"h1", "h2", "s1"} |-> 0]
    /\ lastCmd = [n \in {"h1", "h2", "s1"} |-> <<>>]
    /\ lastPid = [n \in {"h1", "h2", "s1"} |-> None]
    /\ readbuf = [n \in {"h1", "h2", "s1"} |-> <<>>]
    /\ ips = [n \in {"h1", "h2", "s1"} |-> EmptyDict]
    /\ macs = [n \in {"h1", "h2", "s1"} |-> EmptyDict]
    /\ execed = [n \in {"h1", "h2", "s1"} |-> FALSE]
    /\ out = [n \in {"h1", "h2", "s1"} |-> <<DEL>>]
    /\ pending = [n \in {"h1", "h2", "s1"} |-> <<>>]
    /\ shell = [n \in {"h1", "h2", "s1"} |-> "running"]
    /\ lifecycle = [n \in {"h1", "h2", "s1"} |-> "Created"]
    /\ echo = TRUE
    /\ last = [op |-> "init", a |-> NoNode, b |-> NoNode, intf |-> <<>>,
               p1 |-> None, p2 |-> None, exc |-> NoExc, ret |-> <<>>,
               calls |-> <<>>]
    /\ prev = <<>>
    /\ nops = 0
    /\ limit = MaxOps
    /\ pc = EmptyDict

Next ==
    \/ \E n \in Nodes : \E intf \in AddNames(n) : \E port \in PortArgs :
           AddIntf(n, intf, port)
    \/ \E a \in Nodes : \E b \in Nodes \ {a} : \E p \in LinkPorts :
           LinkTo(a, b, p[1], p[2], FALSE)
    \/ \E a \in Nodes : \E b \in Nodes \ {a} : LinkTo(a, b, None, None, TRUE)
    \/ \E a \in Nodes : \E b \in (Nodes \ {a}) \cup {NoNode} : UnlinkFrom(a, b)
    \/ \E a \in Nodes : \E b \in Nodes \ {a} : \E port \in PortArgs :
           DeleteIntfsToNode(a, b, port)
    \/ \E n \in Nodes : \E intf \in DelNames(n) : DeleteIntf(n, intf)
    \/ \E n \in Nodes : \E port \in 0..1 : DeletePort(n, port)
    \/ \E n \in {m \in Nodes : IsSwitch(m)} :
           SendCmd(n, <<<<"ls">>>>, EmptyDict, QuietEnv)

Spec == Init /\ [][Next]_vars

(***************************************************************************)
(* The command channel: a host and a user-space switch, each with its      *)
(* shell.  ShellEmit is the shell printing the next bytes of its output.   *)
(***************************************************************************)
Kwargs == {EmptyDict, [k \in {"mn_wait"} |-> FALSE], [k \in {"printPid"} |-> FALSE]}

Pids == {7, 12}

Bodies == {<<>>, <<"a">>}

Envs == {[pid |-> p, body |-> b] : p \in Pids, b \in Bodies}

Monitor(n) ==
    /\ nops < limit
    /\ ~WouldBlock(Cur, n, ReadSize)
    /\ \E R \in {monitor(Cur, n)} :
           Commit(R, Op("monitor", n, NoNode, <<>>, None, None))
    /\ UNCHANGED <<execed, shell, lifecycle>>

Cmd(n, args, kw, env) ==
    /\ nops < limit
    /\ \E R1 \in {sendCmd(Cur, n, args, kw, env)} :
       \E chunks \in IF Failed(R1) THEN {<<>>}
                     ELSE Chunkings(Len(R1.pending[n]), MaxChunks) :
       \E R2 \in {waitOutput(R1, n, chunks, NoPattern)} :
           Commit(R2, Op("cmd", n, NoNode, Join(args), None, None)
                      @@ [kw |-> kw, env |-> env, stale |-> Unread(n)])
    /\ UNCHANGED <<execed, shell, lifecycle>>

(* the patterns the model waits for: none, or the output of a command *)
Patterns == {NoPattern, "a"}

WaitOutput(n, pattern) ==
    /\ nops < limit
    /\ \E chunks \in Chunkings(Len(pending[n]), MaxChunks) :
       \E R \in {waitOutput(Cur, n, chunks, pattern)} :
           Commit(R, Op("waitOutput", n, NoNode, <<>>, None, None)
                     @@ [pattern |-> pattern, reads |-> R.reads])
    /\ UNCHANGED <<execed, shell, lifecycle>>

SendInt(n) ==
    /\ nops < limit
    /\ \E R \in {sendInt(Cur, n)} :
           Commit(R, Op("sendInt", n, NoNode, <<>>, None, None))
    /\ UNCHANGED <<execed, shell, lifecycle>>

(* what ifconfig prints for an interface that has addresses *)
AddrEnv == [pid |-> 7, body |-> <<"00:00:00:00:00:01", " ", "10.0.0.1">>]

LookupIP(n, intf, env) ==
    /\ nops < limit
    /\ \E R \in {NodeIP(Cur, n, intf, env)} :
           Commit(R, Op("IP", n, NoNode, intf, None, None))
    /\ UNCHANGED <<execed, shell, lifecycle>>

LookupMAC(n, intf, env) ==
    /\ nops < limit
    /\ \E R \in {MAC(Cur, n, intf, env)} :
           Commit(R, Op("MAC", n, NoNode, intf, None, None))
    /\ UNCHANGED <<execed, shell, lifecycle>>

ShellEmit(n, k) ==
    /\ out' = [out EXCEPT ![n] = @ \o SubSeq(pending[n], 1, k)]
    /\ pending' = [pending EXCEPT ![n] = Drop(@, k)]
    /\ UNCHANGED <<cls, regVars, addrVars, chanVars, execed, echo, shell, lifecycle, last,
                   prev, nops, limit, pc>>

(* Node.read called by the controlling program *)
Read(n, bytes) ==
    /\ nops < limit
    /\ \E R \in {read(Cur, n, bytes)} :
           Commit(R, Op("read", n, NoNode, <<>>, bytes, None))
    /\ UNCHANGED <<execed, shell, lifecycle>>

InitChan ==
    /\ cls = [n \in {"h1", "s1"} |-> IF n = "s1" THEN "UserSwitch" ELSE "Host"]
    /\ intfs = [n \in {"h1", "s1"} |-> EmptyDict]
    /\ ports = [n \in {"h1", "s1"} |-> EmptyDict]
    /\ connection = [n \in {"h1", "s1"} |-> EmptyDict]
    /\ waiting = [n \in {"h1", "s1"} |-> FALSE]
    /\ serial = [n \in {"h1", "s1"} |-> IF n = "s1" THEN 2 ELSE 0]
    /\ lastCmd = [n \in {"h1", "s1"} |-> IF n = "s1" THEN <<"kill %ofprotocol">>
                                        ELSE <<>>]
    /\ lastPid = [n \in {"h1", "s1"} |-> None]
    /\ readbuf = [n \in {"h1", "s1"} |-> <<>>]
    /\ ips = [n \in {"h1", "s1"} |-> EmptyDict]
    /\ macs = [n \in {"h1", "s1"} |-> EmptyDict]
    /\ execed = [n \in {"h1", "s1"} |-> FALSE]
    /\ out = [n \in {"h1", "s1"} |-> IF n = "s1" THEN <<>> ELSE <<DEL>>]
    /\ pending = [n \in {"h1", "s1"} |-> <<>>]
    /\ shell = [n \in {"h1", "s1"} |-> "running"]
    /\ lifecycle = [n \in {"h1", "s1"} |-> "Created"]
    /\ echo \in BOOLEAN
    /\ last = [op |-> "init", a |-> NoNode, b |-> NoNode, intf |-> <<>>,
               p1 |-> None, p2 |-> None, exc |-> NoExc, ret |-> <<>>,
               calls |-> <<>>]
    /\ prev = <<>>
    /\ nops = 0
    /\ limit = MaxCalls
    /\ pc = EmptyDict

NextChan ==
    \/ \E n \in Nodes : \E args \in Commands : \E kw \in Kwargs : \E env \in Envs :
           SendCmd(n, args, kw, env)
    \/ \E n \in Nodes : Monitor(n)
    \/ \E n \in Nodes : \E args \in Commands : \E kw \in Kwargs : \E env \in Envs :
           Cmd(n, args, kw, env)
    \/ \E n \in Nodes : \E pattern \in Patterns : WaitOutput(n, pattern)
    \/ \E n \in Nodes : SendInt(n)
    \/ \E n \in Nodes : \E env \in {QuietEnv, AddrEnv} : LookupIP(n, <<"lo">>, env)
    \/ \E n \in Nodes : \E env \in {QuietEnv, AddrEnv} : LookupMAC(n, <<"lo">>, env)
    \/ \E n \in Nodes : \E k \in 1..Len(pending[n]) : ShellEmit(n, k)
    \/ \E n \in Nodes : Read(n, ReadSize)

SpecChan == InitChan /\ [][NextChan]_vars

(***************************************************************************)
(* A caller that reads the output of a command itself, with read and       *)
(* readline.                                                               *)
(***************************************************************************)
(* the value None of readline *)
NoLine == <<"None">>

(* Node.readline.  In `self.readbuf += self.read( 1024 )` the value of     *)
(* self.readbuf is taken before read is called, and read returns what was  *)
(* in the buffer together with what it read.                               *)
readline(R, n) ==
    IF Failed(R) THEN R
    ELSE
    Then(read(R, n, ReadSize), LAMBDA R1 :
    IF Failed(R1) THEN R1
    ELSE
    Then(R.readbuf[n] \o R1.ret, LAMBDA buf :
    Then(Find(buf, <<LF>>), LAMBDA pos :
    IF pos = 0 THEN [R1 EXCEPT !.readbuf[n] = buf, !.ret = NoLine]
    ELSE [R1 EXCEPT !.readbuf[n] = Drop(buf, pos),
                    !.ret = SubSeq(buf, 1, pos - 1)])))

(* the counts the model reads with *)
ReadSizes == {1, 2, ReadSize}

Readline(n) ==
    /\ nops < limit
    /\ \E R \in {readline(Cur, n)} :
           Commit(R, Op("readline", n, NoNode, <<>>, None, None))
    /\ UNCHANGED <<execed, shell, lifecycle>>

(* a command that prints two lines, the second without its newline *)
LinesEnv == [pid |-> 7, body |-> <<"a", LF, "b">>]

InitRead ==
    /\ cls = [n \in {"h1"} |-> "Host"]
    /\ intfs = [n \in {"h1"} |-> EmptyDict]
    /\ ports = [n \in {"h1"} |-> EmptyDict]
    /\ connection = [n \in {"h1"} |-> EmptyDict]
    /\ waiting = [n \in {"h1"} |-> FALSE]
    /\ serial = [n \in {"h1"} |-> 0]
    /\ lastCmd = [n \in {"h1"} |-> <<>>]
    /\ lastPid = [n \in {"h1"} |-> None]
    /\ readbuf = [n \in {"h1"} |-> <<>>]
    /\ ips = [n \in {"h1"} |-> EmptyDict]
    /\ macs = [n \in {"h1"} |-> EmptyDict]
    /\ execed = [n \in {"h1"} |-> FALSE]
    /\ out = [n \in {"h1"} |-> <<DEL>>]
    /\ pending = [n \in {"h1"} |-> <<>>]
    /\ shell = [n \in {"h1"} |-> "running"]
    /\ lifecycle = [n \in {"h1"} |-> "Created"]
    /\ echo \in BOOLEAN
    /\ last = [op |-> "init", a |-> NoNode, b |-> NoNode, intf |-> <<>>,
               p1 |-> None, p2 |-> None, exc |-> NoExc, ret |-> <<>>,
               calls |-> <<>>]
    /\ prev = <<>>
    /\ nops = 0
    /\ limit = MaxReads
    /\ pc = EmptyDict

NextRead ==
    \/ \E n \in Nodes : SendCmd(n, <<<<"ls">>>>, EmptyDict, LinesEnv)
    \/ \E n \in Nodes : \E bytes \in ReadSizes : Read(n, bytes)
    \/ \E n \in Nodes : Readline(n)
    \/ \E n \in Nodes : \E k \in 1..Len(pending[n]) : ShellEmit(n, k)

SpecRead == InitRead /\ [][NextRead]_vars

(***************************************************************************)
(* Starting and stopping switches and controllers.                         *)
(***************************************************************************)
(* the loop of Switch.startIntfs over self.intfs.values() *)
RECURSIVE upEach(_, _, _)
upEach(R, n, list) ==
    IF list = <<>> THEN R
    ELSE upEach(quietCmd(R, n, <<<<"ifconfig ">> \o list[1] \o <<" up">>>>),
                n, Tail(list))

(* the values of a dict, in the order of its keys *)
ValueList(d) == LET keys == KeyList(DOMAIN d)
                IN  [i \in 1..Len(keys) |-> d[keys[i]]]

(* Switch.startIntfs *)
startIntfs(R, n) ==
    upEach(quietCmd(R, n, <<<<"ifconfig lo up">>>>), n, ValueList(R.intfs[n]))

(* Node.defaultIntf: the interface of the lowest port, None without one *)
defaultIntf(R, n) ==
    IF DOMAIN R.intfs[n] = {} THEN <<>>
    ELSE R.intfs[n][CHOOSE p \in DOMAIN R.intfs[n] :
                        \A q \in DOMAIN R.intfs[n] : p <= q]

(* Controller.IP with intf=None: Node.IP of the default interface, and the *)
(* default address when that gives None                                    *)
IP(R, c) ==
    Then(NodeIP(R, c, IF Failed(R) THEN <<>> ELSE defaultIntf(R, c), QuietEnv),
         LAMBDA R1 :
    IF Failed(R1) \/ R1.ret # NoAddr THEN R1 ELSE [R1 EXCEPT !.ret = "127.0.0.1"])

RECURSIVE IPEach(_, _)
IPEach(R, controllers) ==
    IF controllers = <<>> THEN R
    ELSE IPEach(IP(R, controllers[1]), Tail(controllers))

(* UserSwitch.start that runs ofdatapath before the interfaces are up *)
UserSwitchStart_DriverFirst(R, n, controllers) ==
    LET R1 == quietCmd(R, n, <<<<"ofdatapath -i ">>>>)
        R2 == startIntfs(R1, n)
        R3 == IPEach(R2, controllers)
    IN  quietCmd(R3, n, <<<<"ofprotocol unix:/tmp/">>>>)

(* UserSwitch.start *)
UserSwitchStart(R, n, controllers) ==
    LET R1 == startIntfs(R, n)
        R2 == quietCmd(R1, n, <<<<"ofdatapath -i ">>>>)
        R3 == IPEach(R2, controllers)
    IN  quietCmd(R3, n, <<<<"ofprotocol unix:/tmp/">>>>)

(* sorted( self.ports.values() ) *)
RECURSIVE sortedValues(_)
sortedValues(d) ==
    IF DOMAIN d = {} THEN <<>>
    ELSE LET k == CHOOSE i \in DOMAIN d : \A j \in DOMAIN d : d[i] <= d[j]
         IN  <<d[k]>> \o sortedValues(Del(d, k))

(* The port-range check of the kernel switches, lines 643-647 and 744-748: *)
(* ports[ -1 ] of an empty list raises IndexError, and self.intfs[ port ]  *)
(* raises KeyError for a port that is not registered.                      *)
portRange(R, n) ==
    IF Failed(R) THEN R
    ELSE
    Then(sortedValues(R.ports[n]), LAMBDA sorted :
    IF sorted = <<>> THEN Raise(R, "IndexError")
    ELSE IF Len(sorted) # sorted[Len(sorted)] + 1 - portBase(n)
    THEN Raise(R, "Exception")
    ELSE IF \E i \in 1..Len(sorted) : sorted[i] \notin DOMAIN R.intfs[n]
    THEN Raise(R, "KeyError")
    ELSE R)

(* intfs = [ self.intfs[ port ] for port in ports ] *)
portIntfs(R, n) ==
    LET sorted == sortedValues(R.ports[n])
    IN  [i \in 1..Len(sorted) |-> R.intfs[n][sorted[i]]]

(* KernelSwitch.start, with defaultMAC None *)
KernelSwitchStart(R, n, controllers) ==
    Then(startIntfs(R, n), LAMBDA R1 :
    Then(IF Failed(R1) THEN R1
         ELSE quietRun(R1, n, "dpctl deldp", <<"nl:0">>), LAMBDA R2 :
    Then(portRange(quietCmd(R2, n, <<<<"dpctl adddp ">>>>), n), LAMBDA R3 :
    IF Failed(R3) THEN R3
    ELSE
    quietCmd(IPEach(quietCmd(R3, n, <<<<"dpctl">>, <<"addif">>, <<"nl:0">>>>
                                    \o portIntfs(R3, n)),
                    controllers),
             n, <<<<"ofprotocol ">>>>))))

(* the loop `for i in intfs: self.cmd( self.vsctl_cmd, 'add-port', ... )` *)
RECURSIVE addPortEach(_, _, _)
addPortEach(R, n, list) ==
    IF list = <<>> THEN R
    ELSE addPortEach(quietCmd(R, n, <<<<"ovs-vsctl">>, <<"add-port">>,
                                      <<"mn-dp">>, list[1]>>),
                     n, Tail(list))

(* OVSKernelSwitchNew.start, with defaultMAC None *)
OVSKernelSwitchNewStart(R, n, controllers) ==
    Then(startIntfs(R, n), LAMBDA R1 :
    Then(IF Failed(R1) THEN R1
         ELSE quietRun(R1, n, "ovs-vsctl -- --if-exists del-br", <<"mn-dp">>),
         LAMBDA R2 :
    Then(portRange(quietCmd(quietCmd(R2, n, <<<<"ovs-vsctl add-br ">>>>),
                            n, <<<<"ovs-vsctl set-fail-mode ">>>>), n),
         LAMBDA R3 :
    IF Failed(R3) THEN R3
    ELSE
    quietCmd(IPEach(addPortEach(R3, n, portIntfs(R3, n)), controllers),
             n, <<<<"ovs-vsctl set-controller ">>>>))))

(* Node.deleteIntfs: the maps are left as they are *)
RECURSIVE delLinkEach(_, _, _)
delLinkEach(R, n, list) ==
    IF list = <<>> THEN R
    ELSE delLinkEach(quietRun(R, n, "ip link del", list[1]), n, Tail(list))

deleteIntfs(R, n) ==
    IF Failed(R) THEN R ELSE delLinkEach(R, n, ValueList(R.intfs[n]))

(* UserSwitch.stop *)
UserSwitchStop(R, n) ==
    deleteIntfs(quietCmd(quietCmd(R, n, <<<<"kill %ofdatapath">>>>), n,
                         <<<<"kill %ofprotocol">>>>), n)

(* Controller.start, with cdir=None *)
ControllerStart(R, n) ==
    quietCmd(R, n, <<<<"controller">>, <<"-v ptcp:6633 1>/tmp/c0.log 2>/tmp/c0.log&">>>>)

(* Node.terminate *)
terminate(R, n) ==
    IF Failed(R) THEN R ELSE quietRun(R, n, "kill", <<"pid">>)

(* Controller.stop *)
ControllerStop(R, n) ==
    terminate(quietCmd(R, n, <<<<"kill">>, <<"%controller">>>>), n)

start(R, n, controllers) ==
    IF cls[n] = "Controller" THEN ControllerStart(R, n)
    ELSE IF cls[n] = "KernelSwitch" THEN KernelSwitchStart(R, n, controllers)
    ELSE IF cls[n] = "OVSKernelSwitchNew"
    THEN OVSKernelSwitchNewStart(R, n, controllers)
    ELSE UserSwitchStart(R, n, controllers)

stop(R, n) ==
    IF cls[n] = "Controller" THEN ControllerStop(R, n) ELSE UserSwitchStop(R, n)

Controllers == {n \in Nodes : cls[n] = "Controller"}

Elements == {n \in Nodes : cls[n] \in {"Controller", "UserSwitch"}}

(* lifecycle records what has been done to an element: Created until      *)
(* start has returned, then Running until stop has returned.               *)
Start(n) ==
    /\ nops < limit
    /\ \E R \in {start(Cur, n, KeyList(Controllers))} :
           /\ Commit(R, Op("start", n, NoNode, <<>>, None, None)
                     @@ [idle |-> R.idle])
           /\ lifecycle' = IF Failed(R) THEN lifecycle
                           ELSE [lifecycle EXCEPT ![n] = "Running"]
           /\ execed' = IF Failed(R) \/ cls[n] = "UserSwitch" THEN execed
                        ELSE [execed EXCEPT ![n] = FALSE]
    /\ UNCHANGED shell

Stop(n) ==
    /\ nops < limit
    /\ \E R \in {stop(Cur, n)} :
           /\ Commit(R, Op("stop", n, NoNode, <<>>, None, None)
                     @@ [idle |-> R.idle])
           /\ lifecycle' = IF Failed(R) THEN lifecycle
                           ELSE [lifecycle EXCEPT ![n] = "Stopped"]
           /\ shell' = IF Failed(R) \/ cls[n] # "Controller" THEN shell
                       ELSE [shell EXCEPT ![n] = "dead"]
    /\ UNCHANGED execed

DeleteIntfs(n) ==
    /\ nops < limit
    /\ \E R \in {deleteIntfs(Cur, n)} :
           Commit(R, Op("deleteIntfs", n, NoNode, <<>>, None, None))
    /\ UNCHANGED <<execed, shell, lifecycle>>

LifeNodes == {"h1", "s1", "c0"}

LifeClass(n) == IF n = "s1" THEN "UserSwitch"
                ELSE IF n = "c0" THEN "Controller" ELSE "Host"

(* UserSwitch.__init__ has run cmd( 'kill %ofdatapath' ) and              *)
(* cmd( 'kill %ofprotocol' ); the other classes have only read the pid     *)
(* line, and the first prompt is still to be read.                         *)
InitLife ==
    /\ cls = [n \in LifeNodes |-> LifeClass(n)]
    /\ intfs = [n \in LifeNodes |-> EmptyDict]
    /\ ports = [n \in LifeNodes |-> EmptyDict]
    /\ connection = [n \in LifeNodes |-> EmptyDict]
    /\ waiting = [n \in LifeNodes |-> FALSE]
    /\ serial = [n \in LifeNodes |-> IF n = "s1" THEN 2 ELSE 0]
    /\ lastCmd = [n \in LifeNodes |-> IF n = "s1" THEN <<"kill %ofprotocol">>
                                      ELSE <<>>]
    /\ lastPid = [n \in LifeNodes |-> None]
    /\ readbuf = [n \in LifeNodes |-> <<>>]
    /\ ips = [n \in LifeNodes |-> EmptyDict]
    /\ macs = [n \in LifeNodes |-> EmptyDict]
    /\ execed = [n \in LifeNodes |-> FALSE]
    /\ out = [n \in LifeNodes |-> IF n = "s1" THEN <<>> ELSE <<DEL>>]
    /\ pending = [n \in LifeNodes |-> <<>>]
    /\ shell = [n \in LifeNodes |-> "running"]
    /\ lifecycle = [n \in LifeNodes |-> "Created"]
    /\ echo = TRUE
    /\ last = [op |-> "init", a |-> NoNode, b |-> NoNode, intf |-> <<>>,
               p1 |-> None, p2 |-> None, exc |-> NoExc, ret |-> <<>>,
               calls |-> <<>>]
    /\ prev = <<>>
    /\ nops = 0
    /\ limit = MaxOps
    /\ pc = EmptyDict

NextLife ==
    \/ \E n \in Elements : Start(n)
    \/ \E n \in Elements : Stop(n)
    \/ LinkTo("h1", "s1", None, None, FALSE)
    \/ \E n \in Elements : SendCmd(n, <<<<"ls">>>>, EmptyDict, QuietEnv)
    \/ \E n \in Elements : Monitor(n)
    \/ \E n \in Elements : \E k \in 1..Len(pending[n]) : ShellEmit(n, k)
    \/ \E n \in Nodes : DeleteIntfs(n)

SpecLife == InitLife /\ [][NextLife]_vars

(***************************************************************************)
(* A kernel switch in the root namespace whose interfaces are registered   *)
(* with explicit or default ports and which is then started without        *)
(* controllers.                                                            *)
(***************************************************************************)
KernelClasses == {"KernelSwitch", "OVSKernelSwitchNew"}

StartNames == {intfName("s1", 1), intfName("s1", 2)}

InitStart ==
    /\ cls \in [{"s1"} -> KernelClasses]
    /\ intfs = [n \in {"s1"} |-> EmptyDict]
    /\ ports = [n \in {"s1"} |-> EmptyDict]
    /\ connection = [n \in {"s1"} |-> EmptyDict]
    /\ waiting = [n \in {"s1"} |-> FALSE]
    /\ serial = [n \in {"s1"} |-> 0]
    /\ lastCmd = [n \in {"s1"} |-> <<>>]
    /\ lastPid = [n \in {"s1"} |-> None]
    /\ readbuf = [n \in {"s1"} |-> <<>>]
    /\ ips = [n \in {"s1"} |-> EmptyDict]
    /\ macs = [n \in {"s1"} |-> EmptyDict]
    /\ execed = [n \in {"s1"} |-> FALSE]
    /\ out = [n \in {"s1"} |-> <<DEL>>]
    /\ pending = [n \in {"s1"} |-> <<>>]
    /\ shell = [n \in {"s1"} |-> "running"]
    /\ lifecycle = [n \in {"s1"} |-> "Created"]
    /\ echo = TRUE
    /\ last = [op |-> "init", a |-> NoNode, b |-> NoNode, intf |-> <<>>,
               p1 |-> None, p2 |-> None, exc |-> NoExc, ret |-> <<>>,
               calls |-> <<>>]
    /\ prev = <<>>
    /\ nops = 0
    /\ limit = MaxOps
    /\ pc = EmptyDict

NextStart ==
    \/ \E intf \in StartNames : \E port \in {None} \cup 0..MaxPort :
           AddIntf("s1", intf, port)
    \/ Start("s1")

SpecStart == InitStart /\ [][NextStart]_vars

(***************************************************************************)
(* Two threads of the controlling program that each call sendCmd( 'ls' )   *)
(* on the same node.  A step of a thread is one statement of sendCmd, or   *)
(* one turn of one of its loops; pc holds where the thread is (at), and    *)
(* its local variables match (as the serial number in it) and buf.         *)
(* What the shell has to print reaches the pty in one piece.               *)
(***************************************************************************)
Threads == {"t1", "t2"}

(* the shell reads a line written to it: the pty echoes it and the shell   *)
(* prints what the line makes it print, and its prompt                     *)
ShellRuns(n, line, output) ==
    pending' = [pending EXCEPT ![n] = @ \o EchoOf(line) \o output \o <<DEL>>]

(* line 194: assert not self.waiting *)
TAssert(t, n) ==
    /\ pc[t].at = "call"
    /\ pc' = [pc EXCEPT ![t].at = IF waiting[n] THEN "AssertionError"
                                   ELSE "incr"]
    /\ UNCHANGED <<cls, regVars, addrVars, chanVars, shellVars, execed,
                   lifecycle, last, prev, nops, limit>>

(* line 195: self.serial += 1 *)
TIncr(t, n) ==
    /\ pc[t].at = "incr"
    /\ serial' = [serial EXCEPT ![n] = @ + 1]
    /\ pc' = [pc EXCEPT ![t].at = "marker"]
    /\ UNCHANGED <<cls, regVars, addrVars, waiting, lastCmd, lastPid, readbuf,
                   shellVars, execed, lifecycle, last, prev, nops, limit>>

(* line 196: self.write( 'echo __   %s   __\n' % self.serial ) *)
TMarker(t, n) ==
    /\ pc[t].at = "marker"
    /\ ShellRuns(n, MarkerLine(serial[n]),
                 MarkerMatch(serial[n]) \o <<CR, LF>>)
    /\ pc' = [pc EXCEPT ![t].at = "match"]
    /\ UNCHANGED <<cls, regVars, addrVars, chanVars, out, echo, shell, execed,
                   lifecycle, last, prev, nops, limit>>

(* lines 197-198: match = '__ %s __' % self.serial; buf = '' *)
TMatch(t, n) ==
    /\ pc[t].at = "match"
    /\ pc' = [pc EXCEPT ![t] = [at |-> "find", match |-> serial[n],
                                buf |-> <<>>]]
    /\ UNCHANGED <<cls, regVars, addrVars, chanVars, shellVars, execed,
                   lifecycle, last, prev, nops, limit>>

(* buf += self.read( 1024 ), which waits until there is something to read *)
TRead(t, n) ==
    /\ ~WouldBlock(Cur, n, ReadSize)
    /\ \E R \in {read(Cur, n, ReadSize)} :
           /\ pc' = [pc EXCEPT ![t].buf = @ \o R.ret]
           /\ readbuf' = R.readbuf
           /\ out' = R.out
    /\ UNCHANGED <<cls, regVars, addrVars, waiting, serial, lastCmd, lastPid,
                   pending, echo, shell, execed, lifecycle, last, prev, nops,
                   limit>>

(* lines 199-204: one turn of the loop that looks for the marker *)
TFind(t, n) ==
    /\ pc[t].at = "find"
    /\ \E i \in {Find(pc[t].buf, MarkerMatch(pc[t].match))} :
           IF i > 0
           THEN /\ pc' = [pc EXCEPT
                            ![t].buf = Drop(@, i + Len(MarkerMatch(pc[t].match)) - 1),
                            ![t].at = "prompt"]
                /\ UNCHANGED <<cls, regVars, addrVars, chanVars, shellVars,
                               execed, lifecycle, last, prev, nops, limit>>
           ELSE TRead(t, n)

(* lines 205-208: one turn of the loop that looks for the prompt *)
TPrompt(t, n) ==
    /\ pc[t].at = "prompt"
    /\ IF Contains(pc[t].buf, DEL)
       THEN /\ pc' = [pc EXCEPT ![t].at = "send"]
            /\ UNCHANGED <<cls, regVars, addrVars, chanVars, shellVars,
                           execed, lifecycle, last, prev, nops, limit>>
       ELSE TRead(t, n)

(* lines 209-223: the command line is built and written *)
TSend(t, n) ==
    /\ pc[t].at = "send"
    /\ \E line \in {CmdLine(<<<<"ls">>>>, EmptyDict)} :
           ShellRuns(n, line \o <<LF>>, ShellOutput(line, QuietEnv))
    /\ pc' = [pc EXCEPT ![t].at = "flag"]
    /\ UNCHANGED <<cls, regVars, addrVars, chanVars, out, echo, shell, execed,
                   lifecycle, last, prev, nops, limit>>

(* lines 224-229, with mn_wait True *)
TFlag(t, n) ==
    /\ pc[t].at = "flag"
    /\ lastCmd' = [lastCmd EXCEPT ![n] = CmdLine(<<<<"ls">>>>, EmptyDict)]
    /\ lastPid' = [lastPid EXCEPT ![n] = None]
    /\ waiting' = [waiting EXCEPT ![n] = TRUE]
    /\ pc' = [pc EXCEPT ![t].at = "done"]
    /\ UNCHANGED <<cls, regVars, addrVars, serial, readbuf, shellVars, execed,
                   lifecycle, last, prev, nops, limit>>

InitThreads ==
    /\ cls = [n \in {"h1"} |-> "Host"]
    /\ intfs = [n \in {"h1"} |-> EmptyDict]
    /\ ports = [n \in {"h1"} |-> EmptyDict]
    /\ connection = [n \in {"h1"} |-> EmptyDict]
    /\ waiting = [n \in {"h1"} |-> FALSE]
    /\ serial = [n \in {"h1"} |-> 0]
    /\ lastCmd = [n \in {"h1"} |-> <<>>]
    /\ lastPid = [n \in {"h1"} |-> None]
    /\ readbuf = [n \in {"h1"} |-> <<>>]
    /\ ips = [n \in {"h1"} |-> EmptyDict]
    /\ macs = [n \in {"h1"} |-> EmptyDict]
    /\ execed = [n \in {"h1"} |-> FALSE]
    /\ out = [n \in {"h1"} |-> <<DEL>>]
    /\ pending = [n \in {"h1"} |-> <<>>]
    /\ shell = [n \in {"h1"} |-> "running"]
    /\ lifecycle = [n \in {"h1"} |-> "Created"]
    /\ echo \in BOOLEAN
    /\ last = [op |-> "init", a |-> NoNode, b |-> NoNode, intf |-> <<>>,
               p1 |-> None, p2 |-> None, exc |-> NoExc, ret |-> <<>>,
               calls |-> <<>>]
    /\ prev = <<>>
    /\ nops = 0
    /\ limit = 0
    /\ pc = [t \in Threads |-> [at |-> "call", match |-> 0, buf |-> <<>>]]

NextThreads ==
    \/ \E t \in Threads : TAssert(t, "h1")
    \/ \E t \in Threads : TIncr(t, "h1")
    \/ \E t \in Threads : TMarker(t, "h1")
    \/ \E t \in Threads : TMatch(t, "h1")
    \/ \E t \in Threads : TFind(t, "h1")
    \/ \E t \in Threads : TPrompt(t, "h1")
    \/ \E t \in Threads : TSend(t, "h1")
    \/ \E t \in Threads : TFlag(t, "h1")
    \/ \E k \in {Len(pending["h1"])} \ {0} : ShellEmit("h1", k)

SpecThreads == InitThreads /\ [][NextThreads]_vars

(***************************************************************************)
(* Properties of the command channel (SpecChan).                           *)
(***************************************************************************)
(* the step is a call, described by last' *)
IsCall(name) == nops' = nops + 1 /\ last'.op = name

(* C2: a sendCmd on a channel that is still waiting for its previous      *)
(* command fails with the assertion before it writes a byte to the shell,  *)
(* and serial, lastCmd, lastPid, waiting and the read buffer stay as they  *)
(* were.                                                                   *)
C2_SendCmdWhileWaitingFails ==
    [][(IsCall("sendCmd") /\ waiting[last'.a])
       => (/\ last'.exc = "AssertionError"
           /\ last'.calls = <<>>
           /\ UNCHANGED chanVars
           /\ UNCHANGED <<out, pending>>)]_vars

C2_Witness ==
    /\ last.op = "sendCmd"
    /\ last.exc = "AssertionError"
    /\ waiting[last.a]
    /\ last.calls = <<>>

(* C9: when the shell prints the pid pattern (SOH, digits, CR LF) and     *)
(* later the prompt, however the bytes are split over the reads of         *)
(* monitor, the pid is recorded in lastPid and no byte of the pattern is   *)
(* in the output returned.                                                 *)
C9_PidRecordedAndStripped ==
    (/\ last.op = "cmd"
     /\ last.exc = NoExc
     /\ Get(last.kw, "mn_wait", TRUE)
     /\ Contains(lastCmd[last.a], "mnexec -p "))
    => (/\ lastPid[last.a] = last.env.pid
        /\ ~Contains(last.ret, SOH))

(* C10: cmd with a command that has no word character writes `echo -n`,   *)
(* returns the empty string and leaves the channel idle.                   *)
C10_EmptyCommandReturnsEmpty ==
    (/\ last.op = "cmd"
     /\ last.exc = NoExc
     /\ ~HasWord(last.intf))
    => (/\ last.calls[Len(last.calls)][3] = <<"echo", " ", "-n", LF>>
        /\ last.ret = <<>>
        /\ ~waiting[last.a])

(***************************************************************************)
(* Properties of the registry (Spec).                                      *)
(***************************************************************************)
(* C1: after every call, on every node: no two interfaces have the same   *)
(* port, ports is the exact inverse of intfs, and every key of connection  *)
(* is a key of ports.                                                      *)
C1_MapsConsistent ==
    \A n \in Nodes :
        /\ \A i, j \in DOMAIN ports[n] : ports[n][i] = ports[n][j] => i = j
        /\ \A i \in DOMAIN ports[n] :
               ports[n][i] \in DOMAIN intfs[n] /\ intfs[n][ports[n][i]] = i
        /\ \A p \in DOMAIN intfs[n] :
               intfs[n][p] \in DOMAIN ports[n] /\ ports[n][intfs[n][p]] = p
        /\ DOMAIN connection[n] \subseteq DOMAIN ports[n]

(* the maps of node n in R are the current ones *)
SameMaps(R, n) ==
    /\ R.intfs[n] = intfs[n]
    /\ R.ports[n] = ports[n]
    /\ R.connection[n] = connection[n]

(* linkTo( a, b ) followed immediately by unlinkFrom( a, b ) *)
RoundTrip(a, b) == unlinkFrom(linkTo(Cur, a, b, None, None, FALSE), a, b)

(* C3 as stated: in any reachable state, for any two nodes, linkTo with   *)
(* unspecified ports followed by unlinkFrom leaves the maps of both nodes  *)
(* as they were.                                                           *)
C3_RoundTripAnywhere ==
    \A a, b \in Nodes :
        a # b => \A R \in {RoundTrip(a, b)} :
                     ~Failed(R) => SameMaps(R, a) /\ SameMaps(R, b)

(* the interfaces of a that are connected to b *)
Between(a, b) == {i \in DOMAIN connection[a] : connection[a][i][1] = b}

(* the interface names the round trip deletes on a: those connected to b  *)
(* and the name linkTo allocates                                           *)
Gone(a, b) == Between(a, b) \cup {intfName(a, newPort(Cur, a))}

Restrict(d, K) == [k \in DOMAIN d \ K |-> d[k]]

(* the maps of a in R are the current ones without the entries of Gone *)
MapsWithoutGone(R, a, b) ==
    /\ R.intfs[a] = Restrict(intfs[a], {intfToPort(i) : i \in Gone(a, b)})
    /\ R.ports[a] = Restrict(ports[a], Gone(a, b))
    /\ R.connection[a] = Restrict(connection[a], Gone(a, b))

(* the port newPort gives and its canonical name are not yet keys of the   *)
(* maps of n                                                               *)
FreshAlloc(n) ==
    /\ newPort(Cur, n) \notin DOMAIN intfs[n]
    /\ intfName(n, newPort(Cur, n)) \notin DOMAIN ports[n]
    /\ intfName(n, newPort(Cur, n)) \notin DOMAIN connection[n]

(* C3, amended: the round trip deletes every interface between the two    *)
(* nodes, not only the new one, and what was registered under the port and *)
(* name linkTo allocated; the maps of both nodes are as before the linkTo  *)
(* when the nodes were not connected to each other and that port and name  *)
(* were unused.                                                            *)
C3_RoundTripRemovesAllBetween ==
    \A a, b \in Nodes :
        a # b => \A R \in {RoundTrip(a, b)} :
            ~Failed(R) =>
                /\ MapsWithoutGone(R, a, b)
                /\ MapsWithoutGone(R, b, a)
                /\ (Between(a, b) = {} /\ Between(b, a) = {}
                    /\ FreshAlloc(a) /\ FreshAlloc(b))
                   => (SameMaps(R, a) /\ SameMaps(R, b))

(* h1 and h2 were linked and then unlinked, and hold what they held before *)
(* the link: an interface added by hand                                    *)
C3_Witness ==
    /\ prev = <<"h1", "h2">>
    /\ last.op = "unlinkFrom" /\ last.a = "h1" /\ last.b = "h2"
    /\ last.exc = NoExc
    /\ nops = 3
    /\ intfs["h1"] = (0 :> <<"x">>) /\ ports["h1"] = (<<"x">> :> 0)
    /\ connection["h1"] = EmptyDict
    /\ intfs["h2"] = EmptyDict /\ ports["h2"] = EmptyDict
    /\ connection["h2"] = EmptyDict

(* C4: a linkTo that fails leaves the maps of both nodes as they were.    *)
C4_LinkToAllOrNothing ==
    [][((IsCall("linkTo") \/ IsCall("linkToFail")) /\ last'.exc # NoExc)
       => UNCHANGED <<intfs, ports, connection>>]_vars

(* C5: addIntf with a port that is already a key of intfs fails with      *)
(* DuplicatePort and leaves the maps as they were.                         *)
C5_DuplicatePortRejected ==
    [][(IsCall("addIntf") /\ last'.p1 \in DOMAIN intfs[last'.a])
       => (last'.exc = "DuplicatePort"
           /\ UNCHANGED <<intfs, ports, connection>>)]_vars

(* C8: newPort gives the base port of the node's class when no interface  *)
(* is registered, else one more than the highest registered port; the port *)
(* it gives is never registered already.                                   *)
C8_NewPortIsNext ==
    \A n \in Nodes :
        /\ newPort(Cur, n) = IF DOMAIN intfs[n] = {} THEN portBase(n)
                             ELSE Max(DOMAIN intfs[n]) + 1
        /\ newPort(Cur, n) \notin DOMAIN intfs[n]

(***************************************************************************)
(* Properties of starting and stopping (SpecLife).                         *)
(***************************************************************************)
(* C6: start on a switch or controller that has been started raises       *)
(* InvalidTransition and sends no command.                                 *)
C6_SecondStartRejected ==
    [][(IsCall("start") /\ lifecycle[last'.a] = "Running")
       => (last'.exc = "InvalidTransition" /\ last'.calls = <<>>)]_vars

(* C7: stop on a switch or controller that is not running sends no        *)
(* command, deletes no interface and changes nothing of the element.       *)
C7_StopWhenNotRunningIsNoOp ==
    [][(IsCall("stop") /\ lifecycle[last'.a] # "Running")
       => (/\ last'.calls = <<>>
           /\ UNCHANGED <<regVars, chanVars, shell>>)]_vars

(***************************************************************************)
(* Further properties of the registry (Spec).                              *)
(***************************************************************************)
(* C11: in every reachable state the connection maps are reciprocal: when *)
(* interface i of node a is connected to interface j of node b, then j of  *)
(* b is connected to i of a.                                               *)
C11_ConnectionsReciprocal ==
    \A a \in Nodes : \A i \in DOMAIN connection[a] :
        /\ connection[a][i][2] \in DOMAIN connection[connection[a][i][1]]
        /\ connection[connection[a][i][1]][connection[a][i][2]] = <<a, i>>

(* the maps of n after its interfaces K were removed, and nothing else *)
Removed(n, K) ==
    /\ intfs'[n] = Restrict(intfs[n], {p \in DOMAIN intfs[n] : intfs[n][p] \in K})
    /\ ports'[n] = Restrict(ports[n], K)
    /\ connection'[n] = Restrict(connection[n], K)

(* the nodes the interfaces of a are connected to *)
Peers(a) == {connection[a][i][1] : i \in DOMAIN connection[a]}

(* C12: unlinkFrom( a, b ) removes from the three maps of a exactly the   *)
(* interfaces of a connected to b and from those of b exactly the          *)
(* interfaces of b connected to a, and leaves the maps of every other node *)
(* unchanged; unlinkFrom( a ) leaves a's connection map empty and leaves   *)
(* no entry referring to a in the connection map of a former peer.         *)
C12_UnlinkRemovesExactly ==
    [][(IsCall("unlinkFrom") /\ last'.exc = NoExc)
       => IF last'.b # NoNode
          THEN /\ Removed(last'.a, Between(last'.a, last'.b))
               /\ Removed(last'.b, Between(last'.b, last'.a))
               /\ \A n \in Nodes \ {last'.a, last'.b} : Removed(n, {})
          ELSE /\ connection'[last'.a] = EmptyDict
               /\ \A n \in Peers(last'.a) : \A j \in DOMAIN connection'[n] :
                      connection'[n][j][1] # last'.a]_vars

(* the calls of the create-paired-interface primitive among calls *)
PairCalls(calls) == {k \in 1..Len(calls) : calls[k][1] = "makeIntfPair"}

(* node n has no interface and no connection *)
Fresh(n) ==
    intfs[n] = EmptyDict /\ ports[n] = EmptyDict /\ connection[n] = EmptyDict

(* linkTo( a, b ) with unspecified ports has returned the names na and nb  *)
(* of the ports pa and pb and left them registered and connected           *)
Linked(a, pa, na, b, pb, nb) ==
    /\ last'.ret = <<na, nb>>
    /\ Cardinality(PairCalls(last'.calls)) = 1
    /\ <<"makeIntfPair", a, na \o nb>> \in {last'.calls[k] : k \in PairCalls(last'.calls)}
    /\ pa \in DOMAIN intfs'[a] /\ intfs'[a][pa] = na
    /\ na \in DOMAIN ports'[a] /\ ports'[a][na] = pa
    /\ pb \in DOMAIN intfs'[b] /\ intfs'[b][pb] = nb
    /\ nb \in DOMAIN ports'[b] /\ ports'[b][nb] = pb
    /\ na \in DOMAIN connection'[a] /\ connection'[a][na] = <<b, nb>>
    /\ nb \in DOMAIN connection'[b] /\ connection'[b][nb] = <<a, na>>

(* C13: a linkTo( a, b ) with unspecified ports that returns has taken    *)
(* newPort() on each side, returns the canonical names of the two ports,   *)
(* has created one interface pair, has registered each name at its port    *)
(* and has connected the two names to each other; for two hosts without    *)
(* interfaces the names are a-eth0 and b-eth0, and unlinkFrom( a, b )      *)
(* right after leaves the maps of both empty.                              *)
C13_LinkToAllocatesAndRegisters ==
    [][\A a, b \in Nodes :
        (IsCall("linkTo") /\ last'.exc = NoExc /\ last'.a = a /\ last'.b = b
         /\ last'.p1 = None /\ last'.p2 = None)
        => /\ Linked(a, newPort(Cur, a), intfName(a, newPort(Cur, a)),
                     b, newPort(Cur, b), intfName(b, newPort(Cur, b)))
           /\ (Fresh(a) /\ Fresh(b) /\ ~IsSwitch(a) /\ ~IsSwitch(b))
              => /\ last'.ret = <<<<a, "-eth", "0">>, <<b, "-eth", "0">>>>
                 /\ \A R \in {RoundTrip(a, b)} :
                        /\ ~Failed(R)
                        /\ \A n \in {a, b} :
                               /\ R.intfs[n] = EmptyDict
                               /\ R.ports[n] = EmptyDict
                               /\ R.connection[n] = EmptyDict]_vars

(* h1 and h2, without interfaces before, have just been linked *)
C13_Witness ==
    /\ last.op = "linkTo" /\ last.exc = NoExc
    /\ last.a = "h1" /\ last.b = "h2" /\ last.p1 = None /\ last.p2 = None
    /\ last.ret = <<<<"h1", "-eth", "0">>, <<"h2", "-eth", "0">>>>
    /\ intfs["h1"] = (0 :> <<"h1", "-eth", "0">>)
    /\ connection["h2"] = (<<"h2", "-eth", "0">> :> <<"h1", <<"h1", "-eth", "0">>>>)

(***************************************************************************)
(* Further properties of the command channel (SpecChan).                   *)
(***************************************************************************)
(* C14: read never blocks: when the read buffer is empty and the shell    *)
(* has printed nothing that is still unread, read returns at once with no  *)
(* bytes.                                                                  *)
C14_ReadNeverBlocks ==
    \A n \in Nodes :
        (readbuf[n] = <<>> /\ out[n] = <<>>)
        => \A R \in {read(Cur, n, ReadSize)} : R.exc = NoExc /\ R.ret = <<>>

(* C15: a sendCmd that returns leaves waiting set, whatever its options,  *)
(* and waiting stays set until a monitor call of that node clears it.      *)
C15_SendLeavesWaiting ==
    [][/\ (IsCall("sendCmd") /\ last'.exc = NoExc) => waiting'[last'.a]
       /\ \A n \in Nodes :
              (waiting[n] /\ ~waiting'[n])
              => (IsCall("monitor") /\ last'.a = n)]_vars

(* s is t with some of its elements left out *)
RECURSIVE IsSubseq(_, _)
IsSubseq(s, t) ==
    IF s = <<>> THEN TRUE
    ELSE IF t = <<>> THEN FALSE
    ELSE IF s[1] = t[1] THEN IsSubseq(Tail(s), Tail(t))
    ELSE IsSubseq(s, Tail(t))

(* what the shell prints for the command line the call wrote, up to and    *)
(* with its prompt                                                         *)
OwnStream(line, env) == EchoOf(line) \o ShellOutput(SubSeq(line, 1, Len(line) - 1), env) \o <<DEL>>

(* what the command itself prints: not the pid that mnexec prints first *)
OwnOutput(line, env) == Sub(ShellOutput(SubSeq(line, 1, Len(line) - 1), env), 1)

(* C16: a sendCmd or cmd that returns has written the marker with the     *)
(* next serial number and then its command line; after it nothing of what  *)
(* was unread before the call is left and nothing the shell prints for the *)
(* command is lost; what cmd returns is made of what the shell printed for *)
(* its own command only, and holds all the command's output.               *)
C16_OutputAttributed ==
    [][\A n \in Nodes :
        ((IsCall("sendCmd") \/ IsCall("cmd")) /\ last'.a = n /\ last'.exc = NoExc)
        => /\ serial'[n] = serial[n] + 1
           /\ Len(last'.calls) = 2
           /\ last'.calls[1] = <<"write", n, MarkerLine(serial'[n])>>
           /\ last'.calls[2][1] = "write" /\ last'.calls[2][2] = n
           /\ IsCall("sendCmd")
              => /\ readbuf'[n] = <<>>
                 /\ out'[n] \o pending'[n] = OwnStream(last'.calls[2][3], last'.env)
           /\ IsCall("cmd")
              => /\ IsSubseq(last'.ret, OwnStream(last'.calls[2][3], last'.env))
                 /\ IsSubseq(readbuf'[n] \o out'[n] \o pending'[n],
                             OwnStream(last'.calls[2][3], last'.env))
                 /\ ~waiting'[n]
                 /\ Get(last'.kw, "mn_wait", TRUE)
                    => /\ IsSubseq(OwnOutput(last'.calls[2][3], last'.env), last'.ret)
                       /\ readbuf'[n] \o out'[n] \o pending'[n] = <<>>]_vars

(* h1 has run a command with cmd while output of an earlier command was    *)
(* still unread, and cmd returned the output of its own command            *)
C16_Witness ==
    /\ last.op = "cmd" /\ last.a = "h1" /\ last.exc = NoExc
    /\ Contains(last.stale, "a")
    /\ last.env.body = <<>>
    /\ ~Contains(last.ret, "a")
    /\ serial["h1"] = 2

(* the concatenation of the first k of the chunks *)
RECURSIVE Flatten(_, _)
Flatten(chunks, k) ==
    IF k = 0 THEN <<>> ELSE Flatten(chunks, k - 1) \o chunks[k]

(* the condition on which the loop of waitOutput ends, for output acc *)
Ended(w, pattern, acc) == ~w \/ (pattern # NoPattern /\ search(pattern, acc))

(* C17: a waitOutput that returns has found waiting cleared or its        *)
(* pattern in the output, did not call monitor once either was the case,   *)
(* and returns what its calls of monitor returned, in order; a cmd that    *)
(* returns leaves waiting cleared.                                         *)
C17_WaitOutputUntilIdleOrMatch ==
    [][\A n \in Nodes :
        /\ (IsCall("waitOutput") /\ last'.a = n /\ last'.exc = NoExc)
           => /\ Ended(waiting'[n], last'.pattern, last'.ret)
              /\ last'.ret = Flatten(last'.reads, Len(last'.reads))
              /\ \A k \in 0..(Len(last'.reads) - 1) :
                     ~Ended(waiting[n], last'.pattern, Flatten(last'.reads, k))
        /\ (IsCall("cmd") /\ last'.a = n /\ last'.exc = NoExc)
           => ~waiting'[n]]_vars

(* h1 waited for a pattern and got it in the output that had arrived, while *)
(* its command was still running                                           *)
C17_Witness ==
    /\ last.op = "waitOutput" /\ last.a = "h1" /\ last.exc = NoExc
    /\ last.pattern = "a"
    /\ Len(last.reads) = 1
    /\ Contains(last.ret, "a")
    /\ pending["h1"] = <<DEL>>
    /\ waiting["h1"]

(* C18: sendInt writes the interrupt character to the shell, whether a    *)
(* command is outstanding or not, and changes no field of the node:        *)
(* waiting, lastCmd, lastPid, serial and the read buffer are as before.    *)
C18_SendIntChangesNothing ==
    [][IsCall("sendInt")
       => /\ last'.exc = NoExc
          /\ last'.calls = <<<<"write", last'.a, <<ETX>>>>>>
          /\ UNCHANGED <<waiting, serial, lastCmd, lastPid, readbuf>>
          /\ UNCHANGED <<intfs, ports, connection>>]_vars

(* h1 was sent a command and then the interrupt, and is still waiting *)
C18_Witness ==
    /\ last.op = "sendInt" /\ last.a = "h1" /\ last.exc = NoExc
    /\ waiting["h1"]
    /\ lastCmd["h1"] = <<"mnexec -p ", "ls">>
    /\ nops = 2

(* C19: IP( intf ) or MAC( intf ) called while a command is outstanding   *)
(* raises ProtocolViolation, returns no value and writes nothing to the    *)
(* shell.                                                                  *)
C19_LookupWhileWaitingFails ==
    [][((IsCall("IP") \/ IsCall("MAC")) /\ waiting[last'.a])
       => (last'.exc = "ProtocolViolation" /\ last'.calls = <<>>)]_vars

(***************************************************************************)
(* Further properties of starting and stopping (SpecLife).                 *)
(***************************************************************************)
(* C20: deleteIntfs of a node runs the command that destroys an interface *)
(* once for each interface registered on the node; afterwards the intfs    *)
(* and ports maps of the node are empty, its connection map is empty of    *)
(* them and no connection map of another node refers to one of them.       *)
C20_DeleteIntfsRemovesAll ==
    [][\A n \in Nodes :
        (IsCall("deleteIntfs") /\ last'.a = n /\ last'.exc = NoExc)
        => /\ Len(last'.calls) = Cardinality(DOMAIN intfs[n])
           /\ \A p \in DOMAIN intfs[n] :
                  Cardinality({k \in 1..Len(last'.calls) :
                      last'.calls[k] = <<"ip link del", n, intfs[n][p]>>}) = 1
           /\ intfs'[n] = EmptyDict
           /\ ports'[n] = EmptyDict
           /\ \A p \in DOMAIN intfs[n] :
                  /\ intfs[n][p] \notin DOMAIN connection'[n]
                  /\ \A m \in Nodes : \A j \in DOMAIN connection'[m] :
                         connection'[m][j] # <<n, intfs[n][p]>>]_vars

(* the interface name a deleteIntf or deletePort call is about *)
DeletedName(l) == IF l.op = "deletePort" THEN intfName(l.a, l.p1) ELSE l.intf

(* the node n does not know the interface intf *)
Unknown(n, intf) ==
    \/ intf \notin DOMAIN connection[n]
    \/ intf \notin DOMAIN ports[n]
    \/ (intfToPort(intf) # None /\ intfToPort(intf) \notin DOMAIN intfs[n])

(* C21: deleteIntf or deletePort for an interface the node does not know  *)
(* (not in the connection map, not in the ports map, or with a port that   *)
(* is not in the intfs map) raises an error and leaves the three maps as   *)
(* they were.                                                              *)
C21_UnknownInterfaceLeavesMaps ==
    [][\A n \in Nodes :
        ((IsCall("deleteIntf") \/ IsCall("deletePort")) /\ last'.a = n
         /\ Unknown(n, DeletedName(last')))
        => (last'.exc = "KeyError" /\ UNCHANGED <<intfs, ports, connection>>)]_vars

(* h1 was asked to delete an interface that is registered at a port but    *)
(* connected to nothing                                                    *)
C21_Witness ==
    /\ last.op = "deleteIntf" /\ last.a = "h1" /\ last.intf = <<"x">>
    /\ last.exc = "KeyError"
    /\ <<"x">> \in DOMAIN ports["h1"]

(***************************************************************************)
(* Properties of monitor, read and readline (SpecChan).                    *)
(***************************************************************************)
(* C22: monitor clears waiting exactly when the chunk it read holds the   *)
(* sentinel DEL, and what it returns holds no DEL, wherever in the chunk   *)
(* and however often the sentinel occurs.                                  *)
C22_MonitorStripsSentinel ==
    [][\A n \in Nodes :
        (IsCall("monitor") /\ last'.a = n /\ last'.exc = NoExc)
        => /\ Contains(read(Cur, n, ReadSize).ret, DEL) => ~waiting'[n]
           /\ ~Contains(read(Cur, n, ReadSize).ret, DEL)
              => waiting'[n] = waiting[n]
           /\ ~Contains(last'.ret, DEL)]_vars

(* what the call of the step took from the pty *)
Taken(n) == SubSeq(out[n], 1, Len(out[n]) - Len(out'[n]))

(* s is the beginning of t *)
IsPrefix(s, t) == Len(s) <= Len(t) /\ s = SubSeq(t, 1, Len(s))

(* C23: a read( n ) that returns gives at most n bytes, the ones of the   *)
(* read buffer first and then the ones it took from the pty, and what it   *)
(* returns followed by what it leaves in the read buffer is what the       *)
(* buffer held followed by what it took: read after read, no byte is       *)
(* lost, repeated or out of its place.                                     *)
C23_ReadKeepsEveryByte ==
    [][\A n \in Nodes :
        (IsCall("read") /\ last'.a = n /\ last'.exc = NoExc)
        => /\ Len(last'.ret) <= last'.p1
           /\ out[n] = Taken(n) \o out'[n]
           /\ last'.ret \o readbuf'[n] = readbuf[n] \o Taken(n)
           /\ Len(Taken(n)) <= Max({0, last'.p1 - Len(readbuf[n])})
           /\ IsPrefix(last'.ret, readbuf[n] \o Taken(n))]_vars

(* h1 read two bytes of which the first was in its read buffer *)
C23_Witness ==
    /\ last.op = "read" /\ last.a = "h1" /\ last.exc = NoExc
    /\ last.p1 = 2
    /\ nops = 3
    /\ last.ret = <<SOH, "7">>

(* C24: a readline returns the first line of what the read buffer held    *)
(* followed by what it took from the pty, or None when that holds no       *)
(* newline, and leaves the rest in the read buffer: nothing is returned    *)
(* twice and nothing is lost.                                              *)
C24_ReadlineKeepsEveryByte ==
    [][\A n \in Nodes :
        (IsCall("readline") /\ last'.a = n /\ last'.exc = NoExc)
        => /\ out[n] = Taken(n) \o out'[n]
           /\ IF Contains(readbuf[n] \o Taken(n), LF)
              THEN last'.ret \o <<LF>> \o readbuf'[n] = readbuf[n] \o Taken(n)
                   /\ ~Contains(last'.ret, LF)
              ELSE last'.ret = NoLine /\ readbuf'[n] = readbuf[n] \o Taken(n)]_vars

(***************************************************************************)
(* Order of the commands of start and stop (SpecLife).                     *)
(***************************************************************************)
(* the call is a command line written to the shell of n, not a marker *)
IsCommand(c, n) ==
    c[1] = "write" /\ c[2] = n /\ c[3][1] # MarkerLine(0)[1]

IsUp(c, n) == IsCommand(c, n) /\ c[3][1] \in {"ifconfig lo up", "ifconfig "}

IsDriverStart(c, n) ==
    IsCommand(c, n) /\ c[3][1] \in {"ofdatapath -i ", "ofprotocol unix:/tmp/"}

IsTeardown(c, n) ==
    IsCommand(c, n) /\ c[3][1] \in {"kill %ofdatapath", "kill %ofprotocol"}

IsDelete(c, n) == c[1] = "ip link del" /\ c[2] = n

(* the prompt was seen after call i and before call j of l *)
IdleBetween(l, i, j) ==
    \E m \in 1..Len(l.idle) : i <= l.idle[m] /\ l.idle[m] < j

(* C25: in a start of a switch the commands that bring up lo and every     *)
(* registered interface are written before the first command that starts   *)
(* ofdatapath or ofprotocol; in a stop both kill commands are written      *)
(* before the first `ip link del`; and between two commands written to the *)
(* shell of the switch the prompt of the earlier one has been read.        *)
C25_CommandsInOrder ==
    [][\A n \in Nodes :
        ((IsCall("start") \/ IsCall("stop")) /\ last'.a = n
         /\ cls[n] = "UserSwitch")
        => LET c == last'.calls
               I == 1..Len(c)
           IN  /\ \A i, j \in I :
                      /\ (IsUp(c[i], n) /\ IsDriverStart(c[j], n)) => i < j
                      /\ (IsTeardown(c[i], n) /\ IsDelete(c[j], n)) => i < j
                      /\ (IsCommand(c[i], n) /\ IsCommand(c[j], n) /\ i < j)
                         => IdleBetween(last', i, j)
               /\ (IsCall("start") /\ last'.exc = NoExc)
                  => /\ \E i \in I : c[i][3] = <<"ifconfig lo up", LF>>
                     /\ \A p \in DOMAIN intfs[n] : \E i \in I :
                            c[i][3] = <<"ifconfig ">> \o intfs[n][p]
                                      \o <<" up", LF>>
                     /\ \E i \in I : IsDriverStart(c[i], n)
                     /\ \A i \in I : IsCommand(c[i], n)
                                     => IdleBetween(last', i, Len(c) + 1)
               /\ (IsCall("stop") /\ last'.exc = NoExc)
                  => /\ \E i \in I : c[i][3] = <<"kill %ofdatapath", LF>>
                     /\ \E i \in I : c[i][3] = <<"kill %ofprotocol", LF>>
                     /\ \A p \in DOMAIN intfs[n] : \E i \in I :
                            c[i] = <<"ip link del", n, intfs[n][p]>>]_vars

(* a switch with an interface has been started and then stopped: six       *)
(* commands after the two of its constructor                               *)
C25_Witness ==
    /\ last.op = "stop"
    /\ last.a = "s1"
    /\ last.exc = NoExc
    /\ DOMAIN intfs["s1"] # {}
    /\ serial["s1"] = 8
    /\ \E i \in 1..Len(last.calls) : IsDelete(last.calls[i], "s1")

(***************************************************************************)
(* The port-range check of the kernel switches (SpecStart).                *)
(***************************************************************************)
(* the registered port numbers of n are portBase, ..., portBase + k - 1    *)
(* for some k >= 1                                                         *)
Contiguous(n) ==
    /\ DOMAIN ports[n] # {}
    /\ Values(ports[n])
           = portBase(n)..(portBase(n) + Cardinality(Values(ports[n])) - 1)

(* the call is one that attaches interfaces to the datapath *)
IsAttach(c) ==
    c[1] = "write" /\ Len(c[3]) > 2
    /\ (c[3][3] = "addif" \/ (c[3][3] = "add-port" /\ c[3][1] = "ovs-vsctl"))

(* C27: start of a kernel switch goes past the port-range check exactly    *)
(* when the registered ports are portBase, ..., portBase + k - 1 with      *)
(* k >= 1; for every other set of ports it raises the `only contiguous`    *)
(* exception and has attached nothing to the datapath.                     *)
C27_StartIffContiguous ==
    [][\A n \in Nodes :
        (IsCall("start") /\ last'.a = n /\ cls[n] \in KernelClasses)
        => IF Contiguous(n)
           THEN last'.exc \notin {"Exception", "IndexError"}
           ELSE /\ last'.exc = "Exception"
                /\ \A i \in 1..Len(last'.calls) : ~IsAttach(last'.calls[i])]_vars

(***************************************************************************)
(* deleteIntfsToNode with a port (Spec).                                   *)
(***************************************************************************)
(* the interfaces of a that deleteIntfsToNode( b, port ) is to delete *)
ToDelete(a, b, port) ==
    {i \in DOMAIN connection[a] :
        IF port = None THEN connection[a][i][1] = b
        ELSE connection[a][i] = <<b, intfName(b, port)>>}

(* C26: deleteIntfsToNode( b, port ) that returns has deleted from the     *)
(* connections of a exactly the interfaces whose peer is the interface of  *)
(* b at that port, for every port including 0, and every interface         *)
(* connected to b only when no port is given; the other connections are    *)
(* as before.                                                              *)
C26_DeletesOnlyPeerOfPort ==
    [][\A a, b \in Nodes :
        (IsCall("deleteIntfsToNode") /\ last'.a = a /\ last'.b = b
         /\ last'.exc = NoExc)
        => connection'[a]
               = Restrict(connection[a], ToDelete(a, b, last'.p1))]_vars

(***************************************************************************)
(* The channels of distinct nodes are independent (SpecChan).              *)
(***************************************************************************)
ChanOps == {"sendCmd", "monitor", "waitOutput", "sendInt", "read", "cmd"}

(* the channel of node n and its shell in the record R *)
Chan(R, n) ==
    <<R.waiting[n], R.lastCmd[n], R.lastPid[n], R.serial[n], R.readbuf[n],
      R.out[n], R.pending[n]>>

(* the current state with the channel of every node but a as it is after   *)
(* its construction and its first prompt                                   *)
Alone(a) ==
    [Cur EXCEPT !.waiting = [n \in Nodes |-> IF n = a THEN @[n] ELSE FALSE],
                !.lastCmd = [n \in Nodes |-> IF n = a THEN @[n] ELSE <<>>],
                !.lastPid = [n \in Nodes |-> IF n = a THEN @[n] ELSE None],
                !.serial = [n \in Nodes |-> IF n = a THEN @[n] ELSE 0],
                !.readbuf = [n \in Nodes |-> IF n = a THEN @[n] ELSE <<>>],
                !.out = [n \in Nodes |-> IF n = a THEN @[n] ELSE <<>>],
                !.pending = [n \in Nodes |-> IF n = a THEN @[n] ELSE <<>>]]

(* what sendCmd, monitor, sendInt or read of the call l on node a does     *)
(* when the other nodes have done nothing                                  *)
DoneAlone(l, a) ==
    IF l.op = "sendCmd" THEN sendCmd(Alone(a), a, <<l.intf>>, l.kw, l.env)
    ELSE IF l.op = "monitor" THEN monitor(Alone(a), a)
    ELSE IF l.op = "sendInt" THEN sendInt(Alone(a), a)
    ELSE read(Alone(a), a, l.p1)

(* C28: a sendCmd, monitor, waitOutput, sendInt, read or cmd on node a     *)
(* leaves waiting, lastCmd, lastPid, serial and the read buffer of every   *)
(* other node, and what its shell has printed, as they were; and a         *)
(* sendCmd, monitor, sendInt or read gives on a the state and the result   *)
(* it gives when the other nodes have done nothing.                        *)
C28_ChannelsIndependent ==
    [][\A a \in Nodes :
        (nops' = nops + 1 /\ last'.op \in ChanOps /\ last'.a = a)
        => /\ \A n \in Nodes \ {a} : Chan(Cur, n)' = Chan(Cur, n)
           /\ (last'.op \in {"sendCmd", "monitor", "sendInt", "read"})
              => \A R \in {DoneAlone(last', a)} :
                     /\ Chan(R, a) = Chan(Cur, a)'
                     /\ R.exc = last'.exc
                     /\ R.ret = last'.ret]_vars

(* monitor has ended the command of h1 while s1 was waiting for its own *)
C28_Witness ==
    /\ last.op = "monitor"
    /\ last.a = "h1"
    /\ last.exc = NoExc
    /\ ~waiting["h1"]
    /\ waiting["s1"]
    /\ serial["s1"] = 3

(***************************************************************************)
(* Two threads that call sendCmd on one node (SpecThreads).                *)
(***************************************************************************)
(* the threads whose sendCmd has written its command line *)
Senders == {t \in DOMAIN pc : pc[t].at \in {"flag", "done"}}

(* C29: of two threads that call sendCmd on the same node, with no monitor *)
(* in between, at most one gets past the assertion and writes its command  *)
(* line to the shell.                                                      *)
C29_OneCommandOutstanding == Cardinality(Senders) <= 1

====
